---- MODULE Spec2Model ----
(***************************************************************************)
(* Payment backend: the webhook event processor of src/routes/webhook.js   *)
(* (POST /webhook/asaas and POST /webhook/reprocess/:webhookId) over the   *)
(* tables created in config/database.js (src/unnamed/part_000).            *)
(*                                                                         *)
(* One action is one storage operation of a handler (an `await             *)
(* connection.execute(...)`) together with the synchronous code that runs  *)
(* after it up to the next await.                                          *)
(***************************************************************************)
EXTENDS Integers, Sequences, FiniteSets, TLC

\* ------------------------------------------------------------------ bounds
MaxLogs == 2            \* rows of webhook_logs
MaxFaults == 1          \* storage operations that fail in one run
MaxCreates == 2         \* rows that create-payment requests add to payments
                        \* and payment_errors together
MaxRows == 3            \* rows of payments that GET /payments lists
MaxPage == 3            \* ?page= of GET /payments
MaxLimit == 2           \* ?limit= of GET /payments

\* --------------------------------------------------------------- constants
NULL == "<NULL>"                \* SQL NULL / JS null
Undefined == "<undefined>"      \* JS undefined (an absent field)
NoError == "<none>"

Req == {1, 2}                   \* request slots (requests in flight)

\* payments.status ENUM
Statuses == {"PENDING", "CONFIRMED", "RECEIVED", "OVERDUE", "REFUNDED", "CANCELLED"}

\* payments.plan_type ENUM
PlanTypes == {"ESSENCIAL", "COMPLETO"}

\* The cases of the event switch of router.post('/asaas')
KnownEvents == {"PAYMENT_CREATED", "PAYMENT_AWAITING_CONFIRMATION",
                "PAYMENT_CONFIRMED", "PAYMENT_RECEIVED", "PAYMENT_OVERDUE",
                "PAYMENT_DELETED", "PAYMENT_RESTORED", "PAYMENT_REFUNDED"}

\* The cases of the event switch of router.post('/reprocess/:webhookId')
ReprocessEvents == {"PAYMENT_CREATED", "PAYMENT_RECEIVED", "PAYMENT_OVERDUE"}

\* An event type the switch has no case for (the default branch)
OtherEvent == "PAYMENT_UPDATED"

Events == KnownEvents \cup {OtherEvent}

\* A switch whose PAYMENT_OVERDUE handler would store PENDING
EventStatusOverdueAsPending(event) ==
    CASE event \in {"PAYMENT_CREATED", "PAYMENT_AWAITING_CONFIRMATION",
                    "PAYMENT_RESTORED", "PAYMENT_OVERDUE"} -> "PENDING"
      [] event = "PAYMENT_CONFIRMED" -> "CONFIRMED"
      [] event = "PAYMENT_RECEIVED" -> "RECEIVED"
      [] event = "PAYMENT_DELETED" -> "CANCELLED"
      [] event = "PAYMENT_REFUNDED" -> "REFUNDED"
      [] OTHER -> Undefined

\* The status each handlePayment* handler passes to updatePaymentStatus
EventStatus(event) ==
    CASE event = "PAYMENT_CREATED" -> "PENDING"
      [] event = "PAYMENT_AWAITING_CONFIRMATION" -> "PENDING"
      [] event = "PAYMENT_CONFIRMED" -> "CONFIRMED"
      [] event = "PAYMENT_RECEIVED" -> "RECEIVED"
      [] event = "PAYMENT_OVERDUE" -> "OVERDUE"
      [] event = "PAYMENT_DELETED" -> "CANCELLED"
      [] event = "PAYMENT_RESTORED" -> "PENDING"
      [] event = "PAYMENT_REFUNDED" -> "REFUNDED"
      [] OTHER -> Undefined

\* Payment ids a webhook body may carry: those of the two stored payments and
\* one the store does not know
WebhookPayIds == {"pay_1", "pay_2", "pay_3"}

\* ASAAS_WEBHOOK_SECRET as the process may see it
Placeholder == "your_webhook_secret_here"
GoodKey == "whsec_live"
BadKey == "whsec_other"
SecretConfigs == {Undefined, "", Placeholder, GoodKey}

\* -------------------------------------------------------------------- JSON
\* A JSON text is modelled as the sequence of its <<path, value>> members.
\* JSON.stringify drops members whose value is undefined.
JSONstringify(body) ==
    (IF body.event # Undefined THEN << <<"event", body.event>> >> ELSE << >>)
    \o (IF body.payment # Undefined THEN << <<"payment.id", body.payment>> >> ELSE << >>)

Member(text, path) ==
    IF \E i \in 1..Len(text) : text[i][1] = path
    THEN text[CHOOSE i \in 1..Len(text) : text[i][1] = path][2]
    ELSE Undefined

\* JSON.parse followed by `const { event, payment } = payload`
JSONparse(text) ==
    [event |-> Member(text, "event"), payment |-> Member(text, "payment.id")]

\* A request body: the event type and payment.id (Undefined: no payment object)
Bodies == [event : Events, payment : WebhookPayIds \cup {Undefined}]

\* -------------------------------------------------------------- signature
\* crypto.createHmac('sha256', key).update(text).digest('hex'): a value that
\* is equal for equal key and text only.
NoHeader == [present |-> FALSE, key |-> "", text |-> << >>]
Hmac(key, text) == [present |-> TRUE, key |-> key, text |-> text]

\* The body of the same delivery with its event type altered in transit
Tampered(body) ==
    [body EXCEPT !.event = IF body.event = OtherEvent THEN "PAYMENT_RECEIVED" ELSE OtherEvent]

\* The asaas-signature header a sender of each kind attaches to `body`
HeaderKinds == {"none", "signed", "forged", "tampered"}

Header(kind, body) ==
    CASE kind = "none" -> NoHeader
      [] kind = "signed" -> Hmac(GoodKey, JSONstringify(body))
      [] kind = "forged" -> Hmac(BadKey, JSONstringify(body))
      [] kind = "tampered" -> Hmac(GoodKey, JSONstringify(Tampered(body)))

SecretConfigured(webhookSecret) ==
    ~(webhookSecret = Undefined \/ webhookSecret = "" \/ webhookSecret = Placeholder)

\* A middleware that would let a delivery without the header through
verifyLenient(webhookSecret, signature, body) ==
    IF ~SecretConfigured(webhookSecret) THEN "next"
    ELSE IF ~signature.present THEN "next"
    ELSE IF signature # Hmac(webhookSecret, JSONstringify(body)) THEN "401"
    ELSE "next"

\* verifyWebhookSignature: "next" or the status it answers with
verifyWebhookSignature(webhookSecret, signature, body) ==
    IF ~SecretConfigured(webhookSecret) THEN "next"
    ELSE IF ~signature.present THEN "401"
    ELSE IF signature # Hmac(webhookSecret, JSONstringify(body)) THEN "401"
    ELSE "next"

\* ------------------------------------------------------------------ schema
\* createTables: webhook_logs has no updated_at column, and no customer_features
\* table is created; customers has the column nome (not name).
WebhookLogsHasUpdatedAt == FALSE
\* The pool is created without jsonStrings: a column of type JSON
\* (webhook_logs.payload) is read as the parsed value, not as its text
JsonStrings == FALSE
CustomerFeaturesTableExists == FALSE
CustomersHasNameColumn == FALSE

\* activateCustomerServices calls debugTableStructure, which no file declares.
DebugTableStructureDefined == FALSE

\* ------------------------------------------------------------------- state
VARIABLES
    customers,          \* table customers: sequence of rows, id = position
    payments,           \* table payments
    webhook_logs,       \* table webhook_logs
    customer_features,  \* table customer_features (customer_id, feature_name, is_active)
    payment_errors,     \* table payment_errors
    now,                \* CURRENT_TIMESTAMP, in seconds
    req,                \* per request slot: the handler's position and locals
    last,               \* the request that finished last (row it logged, result)
    faults,             \* storage failures still to come in this run
    env                 \* what the run's environment is like (never changes):
                        \*   secret   ASAAS_WEBHOOK_SECRET
                        \*   events   the event types the gateway notifies
                        \*   headers  the kinds of asaas-signature header senders attach
                        \*   parallel requests that may be in flight together
                        \*   forms    the bodies clients post to /create-payment
                        \*   statuses the statuses the gateway reports for a payment
                        \*   ids      the payment ids webhook bodies carry

vars == <<customers, payments, webhook_logs, customer_features, payment_errors,
          now, req, last, faults, env>>

tables == <<customers, payments, webhook_logs, customer_features, payment_errors>>

NoBody == [event |-> Undefined, payment |-> Undefined]

\* req.body of POST /create-payment, before any is received
NoForm == [nome |-> Undefined, cpf |-> Undefined, email |-> Undefined,
           telefone |-> Undefined, paymentMethod |-> Undefined,
           planType |-> Undefined, amount |-> Undefined]

\* What GET /payments has read so far: its query, the ids of the rows of its
\* page, and the count
NoList == [page |-> 0, limit |-> 0, status |-> Undefined, payments |-> << >>, total |-> 0]

\* The ids of the rows a request has inserted (0: none)
NoneMade == [customer |-> 0, payment |-> 0, error |-> 0]

Idle ==
    [kind |-> "idle", pc |-> "idle", body |-> NoBody, signature |-> NoHeader,
     wid |-> 0, target |-> Undefined, success |-> "none",
     err |-> NoError, res |-> 0, row |-> 0, ops |-> << >>,
     pays0 |-> << >>, logs0 |-> << >>,
     form |-> NoForm, customerId |-> 0, asaasId |-> Undefined, seen |-> Undefined,
     made |-> NoneMade, custs0 |-> << >>, errs0 |-> << >>, feats0 |-> {},
     list |-> NoList, paymentData |-> Undefined]

NoLast == [row |-> 0, success |-> "none"]

\* Rows as createPaymentHandler inserts them (status 'PENDING')
CustomerRow(i) ==
    [id |-> i, nome |-> "Ana", cpf |-> <<"12345678901", "98765432100", "11122233344">>[i],
     email |-> <<"a@x.com", "b@x.com", "c@x.com">>[i], telefone |-> "11999999999",
     asaas_customer_id |-> <<"cus_1", "cus_2", "cus_3">>[i]]

PaymentRow(i, customerId, asaasPaymentId, planType) ==
    [id |-> i, customer_id |-> customerId, asaas_payment_id |-> asaasPaymentId,
     plan_type |-> planType, payment_method |-> "PIX", amount |-> 4990,
     status |-> "PENDING"]

\* The store as two payment creations leave it: a payment of each plan, each
\* of its own customer; no webhook has arrived yet
InitStore ==
    /\ customers = <<CustomerRow(1), CustomerRow(2)>>
    /\ payments = <<PaymentRow(1, 1, "pay_1", "ESSENCIAL"),
                    PaymentRow(2, 2, "pay_2", "COMPLETO")>>
    /\ webhook_logs = << >>
    /\ customer_features = {}
    /\ payment_errors = << >>
    /\ now = 1
    /\ req = [r \in Req |-> Idle]
    /\ last = NoLast

\* Reliable storage, signature check not configured, every event type, one
\* request at a time
Init ==
    /\ InitStore
    /\ faults = 0
    /\ env = [secret |-> Undefined, events |-> Events, headers |-> {"none"},
              parallel |-> 1, forms |-> {}, statuses |-> {},
              ids |-> WebhookPayIds \cup {Undefined}]

\* Storage operations may fail; any secret setting and any header; the
\* gateway notifies one event type per run; one request at a time
InitF ==
    /\ InitStore
    /\ faults = MaxFaults
    /\ \E secret \in SecretConfigs, event \in Events :
          env = [secret |-> secret, events |-> {event}, headers |-> HeaderKinds,
                 parallel |-> 1, forms |-> {}, statuses |-> {},
                 ids |-> WebhookPayIds \cup {Undefined}]

\* ----------------------------------------------------------------- helpers
\* Outcomes of one connection.execute: TRUE it returns, FALSE it throws
Outcomes == IF faults > 0 THEN {TRUE, FALSE} ELSE {TRUE}

Spend(ok) == faults' = IF ok THEN faults ELSE faults - 1

InFlight == {q \in Req : req[q].pc # "idle"}

\* A request may start in the lowest free slot while the run allows one more
CanStart(r) ==
    /\ req[r].pc = "idle"
    /\ Cardinality(InFlight) < env.parallel
    /\ \A q \in Req : q < r => req[q].pc # "idle"

\* `column = ?` in a WHERE clause: never true of NULL
SqlEq(column, param) == column # NULL /\ param # NULL /\ column = param

\* `payment?.id || null`
PaymentIdOrNull(body) ==
    IF body.payment = Undefined \/ body.payment = "" THEN NULL ELSE body.payment

\* A lookup that would match every payment row
AnyPayment(asaasPaymentId) == {i \in 1..Len(payments) : TRUE}

\* SELECT ... FROM payments WHERE asaas_payment_id = ?
PaymentsByAsaasId(asaasPaymentId) ==
    {i \in 1..Len(payments) : SqlEq(payments[i].asaas_payment_id, asaasPaymentId)}

\* rows[0] of a result set
First(rows) == CHOOSE i \in rows : \A j \in rows : i <= j

\* ORDER BY created_at DESC LIMIT 1 over the rows `matching`: a row with the
\* greatest created_at (rows of the same second come in no defined order)
MostRecent(logs, matching) ==
    {i \in matching : \A j \in matching : logs[j].created_at <= logs[i].created_at}

\* WHERE payment_id = ? AND event_type = ?
MarkMatches(logs, paymentId, event) ==
    {i \in 1..Len(logs) : SqlEq(logs[i].payment_id, paymentId) /\ SqlEq(logs[i].event_type, event)}

\* A catch that would pick the row without looking at its payment id
AnyLog(logs, paymentId) == {i \in 1..Len(logs) : TRUE}

\* WHERE payment_id = ?
ErrorMatches(logs, paymentId) ==
    {i \in 1..Len(logs) : SqlEq(logs[i].payment_id, paymentId)}

\* SET error_message = ?, had it also blanked the payload
WithErrorDroppingPayload(row, message) ==
    [row EXCEPT !.error_message = message, !.payload = << >>]

\* SET error_message = ?
WithError(row, message) == [row EXCEPT !.error_message = message]

\* A short-circuit that would report failure
AlreadyUpdatedIsFailure == "false"

\* The value updatePaymentStatus returns when the status already is the target
AlreadyUpdatedResult == "true"

\* Handlers that would throw when updatePaymentStatus returns false
AfterUpdateThrowing(rq, success) ==
    IF success = "false" /\ rq.kind = "webhook" THEN "wh_catch"
    ELSE IF rq.body.event = "PAYMENT_REFUNDED" /\ rq.kind = "webhook" THEN "deact_select"
    ELSE IF rq.kind = "webhook" THEN "wh_mark" ELSE "rp_mark"

\* Where a handler goes when updatePaymentStatus has returned `success`
AfterUpdate(rq, success) ==
    IF rq.body.event = "PAYMENT_REFUNDED" /\ rq.kind = "webhook" THEN "deact_select"
    ELSE IF rq.kind = "webhook" THEN "wh_mark" ELSE "rp_mark"

\* activateCustomerServices(asaasPaymentId): the rows of customer_features after
\* it.  The call of debugTableStructure throws a ReferenceError that the
\* function's own catch swallows, before any query is made.
FeatureOf(planType) ==
    CASE planType = "ESSENCIAL" -> "basic_features"
      [] planType = "COMPLETO" -> "premium_features"
      [] OTHER -> Undefined

Upsert(features, customerId, feature) ==
    {f \in features : ~(f.customer_id = customerId /\ f.feature_name = feature)}
    \cup {[customer_id |-> customerId, feature_name |-> feature, is_active |-> TRUE]}

\* An activation that would write: debugTableStructure declared and the table
\* customer_features created
activateDeclared(features, asaasPaymentId) ==
    LET found == PaymentsByAsaasId(asaasPaymentId) IN
    IF found = {} THEN features
    ELSE Upsert(features, payments[First(found)].customer_id,
                FeatureOf(payments[First(found)].plan_type))

activateCustomerServices(features, asaasPaymentId) ==
    IF ~DebugTableStructureDefined THEN features
    ELSE LET found == PaymentsByAsaasId(asaasPaymentId) IN
         IF found = {} THEN features
         ELSE LET p == payments[First(found)] IN
              IF FeatureOf(p.plan_type) = Undefined \/ ~CustomerFeaturesTableExists
              THEN features
              ELSE Upsert(features, p.customer_id, FeatureOf(p.plan_type))

\* A handler that would activate whatever updatePaymentStatus returned
ActivatesAlways(rq, success) == rq.body.event = "PAYMENT_RECEIVED"

\* handlePaymentReceived: `if (success)` guards the call of
\* activateCustomerServices; no other handler calls it
Activates(rq, success) == rq.body.event = "PAYMENT_RECEIVED" /\ success = "true"

\* handlePaymentReceived after updatePaymentStatus returned
Activation(rq, success) ==
    IF Activates(rq, success)
    THEN activateCustomerServices(customer_features, rq.body.payment)
    ELSE customer_features

\* updatePaymentStatus returns `success` to its handler, which calls
\* activateCustomerServices or not (the call is recorded with whether it wrote)
Returned(rq, success) ==
    [(IF Activates(rq, success)
      THEN [rq EXCEPT !.ops = Append(rq.ops, <<"activateCustomerServices",
                                               DebugTableStructureDefined
                                                 /\ CustomerFeaturesTableExists>>)]
      ELSE rq)
       EXCEPT !.success = success, !.pc = AfterUpdate(rq, success)]

\* The event switch: a handler of a known event reads payment.id, which throws
\* a TypeError when the body has no payment object
Dispatch(rq, handled, markPc, catchPc) ==
    IF rq.body.event \in handled
    THEN IF rq.body.payment = Undefined
         THEN [rq EXCEPT !.pc = catchPc, !.err = "TypeError"]
         ELSE [rq EXCEPT !.pc = "ups_select", !.target = EventStatus(rq.body.event)]
    ELSE [rq EXCEPT !.pc = markPc]

\* A request as its handler starts: the tables it finds are remembered
Started(kind) ==
    [Idle EXCEPT !.kind = kind, !.pays0 = payments, !.logs0 = webhook_logs,
                 !.custs0 = customers, !.errs0 = payment_errors,
                 !.feats0 = customer_features]

\* The storage operations a request has made so far, each with its outcome
Did(rq, op, ok) == [rq EXCEPT !.ops = Append(rq.ops, <<op, ok>>)]

Answer(rq, status) == [rq EXCEPT !.pc = "done", !.res = status]

\* Seconds that pass before a row is inserted (only the order of created_at
\* values is ever read)
Elapsed == IF webhook_logs = << >> THEN {0} ELSE {0, 1}

\* ------------------------------------------------- POST /webhook/asaas
\* The request arrives: verifyWebhookSignature, then the handler up to its
\* first await (the INSERT into webhook_logs)
WebhookReceive(r) ==
    /\ CanStart(r)
    /\ Len(webhook_logs) < MaxLogs
    /\ \E body \in Bodies, kind \in env.headers :
          /\ body.event \in env.events
          /\ body.payment \in env.ids
          /\ LET signature == Header(kind, body)
                 rq == [Started("webhook") EXCEPT !.body = body, !.signature = signature]
             IN req' = [req EXCEPT ![r] =
                          IF verifyWebhookSignature(env.secret, signature, body) = "next"
                          THEN [rq EXCEPT !.pc = "wh_insert"]
                          ELSE Answer(rq, 401)]
    /\ UNCHANGED <<tables, now, last, faults, env>>

\* INSERT INTO webhook_logs (payment_id, event_type, payload), then the switch
WhInsertLog(r) ==
    /\ req[r].pc = "wh_insert"
    /\ \E ok \in Outcomes, dt \in Elapsed :
          /\ Spend(ok)
          /\ IF ok
             THEN LET rq == req[r]
                      id == Len(webhook_logs) + 1
                      row == [id |-> id,
                              payment_id |-> PaymentIdOrNull(rq.body),
                              event_type |-> rq.body.event,
                              payload |-> JSONstringify(rq.body),
                              processed |-> FALSE,
                              error_message |-> NULL,
                              created_at |-> now + dt]
                  IN /\ webhook_logs' = Append(webhook_logs, row)
                     /\ now' = now + dt
                     /\ req' = [req EXCEPT ![r] =
                                  Dispatch(Did([rq EXCEPT !.row = id, !.signature = NoHeader],
                                               "insert webhook_logs", TRUE),
                                           KnownEvents, "wh_mark", "wh_catch")]
             ELSE /\ req' = [req EXCEPT ![r] =
                                  [Did(req[r], "insert webhook_logs", FALSE)
                                     EXCEPT !.pc = "wh_catch", !.err = "StorageError",
                                            !.signature = NoHeader]]
                  /\ UNCHANGED <<webhook_logs, now>>
    /\ UNCHANGED <<customers, payment_errors, payments, customer_features, last, env>>

\* updatePaymentStatus: SELECT ... FROM payments WHERE asaas_payment_id = ?
UpsSelect(r) ==
    /\ req[r].pc = "ups_select"
    /\ \E ok \in Outcomes :
          /\ Spend(ok)
          /\ LET rq == Did(req[r], "select payments", ok)
                 found == PaymentsByAsaasId(rq.body.payment)
                 success == IF ~ok THEN "false"
                            ELSE IF found = {} THEN "none"
                            ELSE IF payments[First(found)].status = rq.target
                                 THEN AlreadyUpdatedResult
                            ELSE "none"
             IN IF success # "none"
                THEN /\ req' = [req EXCEPT ![r] = Returned(rq, success)]
                     /\ customer_features' = Activation(rq, success)
                ELSE /\ req' = [req EXCEPT ![r] =
                                  [rq EXCEPT !.pc = IF found = {} THEN "ups_similar"
                                                    ELSE "ups_update"]]
                     /\ UNCHANGED customer_features
    /\ UNCHANGED <<customers, payment_errors, payments, webhook_logs, now, last, env>>

\* An updatePaymentStatus that would create a placeholder row for a payment it
\* does not find
UpsPlaceholder(r) ==
    /\ req[r].pc = "ups_similar"
    /\ \E ok \in Outcomes :
          /\ Spend(ok)
          /\ req' = [req EXCEPT ![r] = Returned(Did(req[r], "insert payments", ok), "false")]
          /\ payments' =
                IF ok
                THEN Append(payments,
                            [PaymentRow(Len(payments) + 1, 1, req[r].body.payment, "ESSENCIAL")
                               EXCEPT !.status = req[r].target])
                ELSE payments
    /\ UNCHANGED <<customers, payment_errors, customer_features, webhook_logs, now, last, env>>

\* updatePaymentStatus, payment not found: SELECT the last five, return false
UpsSimilar(r) ==
    /\ req[r].pc = "ups_similar"
    /\ \E ok \in Outcomes :
          /\ Spend(ok)
          /\ LET rq == Did(req[r], "select payments", ok)
             IN /\ req' = [req EXCEPT ![r] = Returned(rq, "false")]
                /\ customer_features' = Activation(rq, "false")
    /\ UNCHANGED <<customers, payment_errors, payments, webhook_logs, now, last, env>>

\* A driver that would count only the rows the statement changed
ChangedRows(hit, status) == Cardinality({i \in hit : payments[i].status # status})

\* result.affectedRows of the UPDATE: the rows its WHERE clause matched (mysql2
\* connects with the FOUND_ROWS flag), changed or not
AffectedRows(hit, status) == Cardinality(hit)

\* updatePaymentStatus: UPDATE payments SET status = ? WHERE asaas_payment_id = ?
UpsUpdate(r) ==
    /\ req[r].pc = "ups_update"
    /\ \E ok \in Outcomes :
          /\ Spend(ok)
          /\ LET rq == Did(req[r], "update payments", ok)
                 hit == PaymentsByAsaasId(rq.body.payment)
             IN IF ok /\ AffectedRows(hit, rq.target) # 0
                THEN /\ payments' = [i \in 1..Len(payments) |->
                                       IF i \in hit
                                       THEN [payments[i] EXCEPT !.status = rq.target]
                                       ELSE payments[i]]
                     /\ req' = [req EXCEPT ![r] = [rq EXCEPT !.pc = "ups_verify"]]
                     /\ UNCHANGED customer_features
                ELSE /\ req' = [req EXCEPT ![r] = Returned(rq, "false")]
                     /\ customer_features' = Activation(rq, "false")
                     /\ UNCHANGED payments
    /\ UNCHANGED <<customers, payment_errors, webhook_logs, now, last, env>>

\* updatePaymentStatus: SELECT status, updated_at (the check after the UPDATE);
\* the status it reads is only logged
UpsVerify(r) ==
    /\ req[r].pc = "ups_verify"
    /\ \E ok \in Outcomes :
          /\ Spend(ok)
          /\ LET found == PaymentsByAsaasId(req[r].body.payment)
                 rq == [Did(req[r], "select payments", ok)
                          EXCEPT !.seen = IF ok /\ found # {}
                                          THEN payments[First(found)].status ELSE @]
                 success == IF ok THEN "true" ELSE "false"
             IN /\ req' = [req EXCEPT ![r] = Returned(rq, success)]
                /\ customer_features' = Activation(rq, success)
    /\ UNCHANGED <<customers, payment_errors, payments, webhook_logs, now, last, env>>

\* A deactivation that would write: it marks the features of the payment's
\* customer inactive
DeactTeardown(r) ==
    /\ req[r].pc = "deact_select"
    /\ \E ok \in Outcomes :
          /\ Spend(ok)
          /\ req' = [req EXCEPT ![r] = [Did(req[r], "select payments", ok) EXCEPT !.pc = "wh_mark"]]
          /\ customer_features' =
                IF ok
                THEN {f \in customer_features : ~f.is_active}
                     \cup {[customer_id |-> payments[i].customer_id,
                            feature_name |-> FeatureOf(payments[i].plan_type),
                            is_active |-> FALSE] : i \in PaymentsByAsaasId(req[r].body.payment)}
                ELSE customer_features
    /\ UNCHANGED <<customers, payments, webhook_logs, payment_errors, now, last, env>>

\* deactivateCustomerServices: one SELECT (payments JOIN customers) and no
\* write.  The statement names the column c.name, which customers does not
\* have, so it fails whenever it runs; every error is caught inside
DeactSelect(r) ==
    /\ req[r].pc = "deact_select"
    /\ \E ok \in Outcomes :
          /\ Spend(ok)
          /\ req' = [req EXCEPT ![r] =
                       [Did(req[r], "select payments", ok /\ CustomersHasNameColumn)
                          EXCEPT !.pc = "wh_mark"]]
    /\ UNCHANGED <<tables, now, last, env>>

\* UPDATE webhook_logs SET processed = TRUE WHERE payment_id = ? AND
\* event_type = ? ORDER BY created_at DESC LIMIT 1, then res.status(200)
WhMark(r) ==
    /\ req[r].pc = "wh_mark"
    /\ \E ok \in Outcomes :
          /\ Spend(ok)
          /\ LET rq == Did(req[r], "mark webhook_logs", ok)
                 rows == MostRecent(webhook_logs,
                           MarkMatches(webhook_logs, PaymentIdOrNull(rq.body), rq.body.event))
             IN IF ~ok
                THEN /\ req' = [req EXCEPT ![r] = [rq EXCEPT !.pc = "wh_catch",
                                                             !.err = "StorageError"]]
                     /\ UNCHANGED webhook_logs
                ELSE /\ req' = [req EXCEPT ![r] = Answer(rq, 200)]
                     /\ IF rows = {} THEN UNCHANGED webhook_logs
                        ELSE \E i \in rows :
                               webhook_logs' = [webhook_logs EXCEPT ![i].processed = TRUE]
    /\ UNCHANGED <<customers, payment_errors, payments, customer_features, now, last, env>>

\* A catch whose own UPDATE would not be guarded: when it fails, the rejection
\* leaves the handler and no response is sent
WhCatchUnguarded(r) ==
    /\ req[r].pc = "wh_catch"
    /\ \E ok \in Outcomes :
          /\ Spend(ok)
          /\ LET rq == Did(req[r], "error webhook_logs", ok)
             IN req' = [req EXCEPT ![r] = IF ok THEN Answer(rq, 500)
                                          ELSE [rq EXCEPT !.pc = "unhandled"]]
    /\ UNCHANGED <<tables, now, last, env>>

\* catch: UPDATE webhook_logs SET error_message = ? WHERE payment_id = ?
\* ORDER BY created_at DESC LIMIT 1 (its own failure is swallowed), then 500
WhCatch(r) ==
    /\ req[r].pc = "wh_catch"
    /\ \E ok \in Outcomes :
          /\ Spend(ok)
          /\ LET rq == Did(req[r], "error webhook_logs", ok)
                 rows == MostRecent(webhook_logs,
                           ErrorMatches(webhook_logs, PaymentIdOrNull(rq.body)))
             IN /\ req' = [req EXCEPT ![r] = Answer(rq, 500)]
                /\ IF ~ok \/ rows = {} THEN UNCHANGED webhook_logs
                   ELSE \E i \in rows :
                          webhook_logs' = [webhook_logs EXCEPT
                                             ![i] = WithError(webhook_logs[i], rq.err)]
    /\ UNCHANGED <<customers, payment_errors, payments, customer_features, now, last, env>>

\* ------------------------------------- POST /webhook/reprocess/:webhookId
ReprocessReceive(r) ==
    /\ CanStart(r)
    /\ \E wid \in 1..(Len(webhook_logs) + 1) :
          req' = [req EXCEPT ![r] = [Started("reprocess") EXCEPT !.pc = "rp_select",
                                                                 !.wid = wid]]
    /\ UNCHANGED <<tables, now, last, faults, env>>

\* log.payload as the SELECT returns it: the text of the column when the
\* driver is told to keep JSON as strings, else the value already parsed
ReadPayload(text) ==
    IF JsonStrings THEN [string |-> TRUE, text |-> text]
    ELSE [string |-> FALSE, value |-> JSONparse(text)]

\* JSON.parse(log.payload) throws: an argument that is no string is converted
\* with String(), and "[object Object]" is no JSON text (SyntaxError)
JSONparseThrows(payload) == ~payload.string

\* SELECT * FROM webhook_logs WHERE id = ?, JSON.parse(log.payload), the
\* switch; an exception of JSON.parse goes to the catch of the route (500)
RpSelect(r) ==
    /\ req[r].pc = "rp_select"
    /\ \E ok \in Outcomes :
          /\ Spend(ok)
          /\ LET rq == Did(req[r], "select webhook_logs", ok)
             IN req' = [req EXCEPT ![r] =
                   IF ~ok THEN Answer(rq, 500)
                   ELSE IF rq.wid > Len(webhook_logs) THEN Answer(rq, 404)
                   ELSE LET payload == ReadPayload(webhook_logs[rq.wid].payload)
                        IN IF JSONparseThrows(payload) THEN Answer(rq, 500)
                           ELSE LET next == Dispatch([rq EXCEPT !.body =
                                                         JSONparse(payload.text)],
                                                     ReprocessEvents, "rp_mark", "done")
                                IN IF next.pc = "done" THEN Answer(next, 500) ELSE next]
    /\ UNCHANGED <<tables, now, last, env>>

\* UPDATE webhook_logs SET processed = TRUE, updated_at = CURRENT_TIMESTAMP
\* WHERE id = ?: the statement names a column the table does not have. The
\* step follows the switch of the reprocess route, which no request reaches
\* while JSON.parse(log.payload) throws; it is no disjunct of Next.
RpMark(r) ==
    /\ req[r].pc = "rp_mark"
    /\ \E ok \in Outcomes :
          /\ Spend(ok)
          /\ LET rq == Did(req[r], "mark webhook_logs", ok /\ WebhookLogsHasUpdatedAt)
             IN IF ok /\ WebhookLogsHasUpdatedAt
                THEN /\ webhook_logs' = [webhook_logs EXCEPT ![rq.wid].processed = TRUE]
                     /\ req' = [req EXCEPT ![r] = Answer(rq, 200)]
                ELSE /\ req' = [req EXCEPT ![r] = Answer(rq, 500)]
                     /\ UNCHANGED webhook_logs
    /\ UNCHANGED <<customers, payment_errors, payments, customer_features, now, last, env>>

\* The response reaches the client; the slot is free again
LastOf(rq) ==
    IF rq.kind = "webhook" /\ rq.res = 200
    THEN [row |-> rq.row, success |-> rq.success]
    ELSE NoLast

Finish(r) ==
    /\ req[r].pc = "done"
    /\ req' = [req EXCEPT ![r] = Idle]
    /\ last' = LastOf(req[r])
    /\ UNCHANGED <<tables, now, faults, env>>

Next ==
    \E r \in Req :
        \/ WebhookReceive(r)
        \/ WhInsertLog(r)
        \/ UpsSelect(r)
        \/ UpsSimilar(r)
        \/ UpsUpdate(r)
        \/ UpsVerify(r)
        \/ DeactSelect(r)
        \/ WhMark(r)
        \/ WhCatch(r)
        \/ ReprocessReceive(r)
        \/ RpSelect(r)
        \/ Finish(r)

Spec == Init /\ [][Next]_vars

SpecF == InitF /\ [][Next]_vars

\* ---------------------------------------------------- POST /create-payment
\* What paymentSchema reads of a string value: its length, whether it is all
\* digits, whether it is an e-mail address
StrLen(v) ==
    CASE v \in {"12345678901", "11122233344", "98765432100", "11999999999",
                "11888888888"} -> 11
      [] v \in {"a@x.com", "c@x.com", "b@x.com"} -> 7
      [] v \in {"Ana", "Bia", "123"} -> 3
      [] v = "A" -> 1
      [] OTHER -> 12

AllDigits(v) ==
    v \in {"12345678901", "11122233344", "98765432100", "11999999999", "11888888888", "123"}

IsEmail(v) == v \in {"a@x.com", "c@x.com", "b@x.com"}

\* The JSON numbers the bodies carry as amount, in cents
Cents(v) ==
    CASE v = "49.90" -> 4990
      [] OTHER -> 0

\* A schema that would require the fields but not look at what they hold
RequiredOnly(b) ==
    {f \in {"nome", "cpf", "email", "telefone", "paymentMethod", "planType", "amount"} :
        b[f] = Undefined}

\* paymentSchema.validate(req.body): the fields in error (Joi reports the first)
paymentSchema(b) ==
    {f \in {"nome", "cpf", "email", "telefone", "paymentMethod", "planType", "amount"} :
        \/ b[f] = Undefined
        \/ f = "nome" /\ ~(StrLen(b.nome) >= 2 /\ StrLen(b.nome) <= 255)
        \/ f = "cpf" /\ ~(AllDigits(b.cpf) /\ StrLen(b.cpf) = 11)
        \/ f = "email" /\ ~(IsEmail(b.email) /\ StrLen(b.email) <= 255)
        \/ f = "telefone" /\ ~(AllDigits(b.telefone) /\ StrLen(b.telefone) >= 10
                                 /\ StrLen(b.telefone) <= 11)
        \/ f = "paymentMethod" /\ b.paymentMethod \notin {"PIX", "CREDIT_CARD"}
        \/ f = "planType" /\ b.planType \notin {"ESSENCIAL", "COMPLETO"}
        \/ f = "amount" /\ ~(Cents(b.amount) > 0)}

\* A body that passes validation
GoodForm(email, cpf, planType) ==
    [nome |-> "Ana", cpf |-> cpf, email |-> email, telefone |-> "11999999999",
     paymentMethod |-> "PIX", planType |-> planType, amount |-> "49.90"]

\* Two people, and a body with the e-mail address of one and the cpf of the
\* other, under another name and phone
GoodForms ==
    {GoodForm("a@x.com", "12345678901", "ESSENCIAL"),
     GoodForm("c@x.com", "11122233344", "COMPLETO"),
     [GoodForm("a@x.com", "11122233344", "ESSENCIAL")
        EXCEPT !.nome = "Bia", !.telefone = "11888888888"]}

\* Bodies with one field missing or malformed
BadForms ==
    LET base == GoodForm("a@x.com", "12345678901", "ESSENCIAL") IN
    {[base EXCEPT ![f] = Undefined] :
        f \in {"nome", "cpf", "email", "telefone", "paymentMethod", "planType", "amount"}}
    \cup {[base EXCEPT !.nome = "A"], [base EXCEPT !.cpf = "123"],
          [base EXCEPT !.email = "not-an-email"], [base EXCEPT !.telefone = "123"],
          [base EXCEPT !.paymentMethod = "BOLETO"], [base EXCEPT !.planType = "PREMIUM"],
          [base EXCEPT !.amount = "0"]}

Forms == GoodForms \cup BadForms

\* JSON.stringify(req.body) of a create-payment body
FormJSON(b) ==
    LET Field(f) == IF b[f] = Undefined THEN << >> ELSE << <<f, b[f]>> >> IN
    Field("nome") \o Field("cpf") \o Field("email") \o Field("telefone")
      \o Field("paymentMethod") \o Field("planType") \o Field("amount")

\* The ids the gateway issues, in the order it issues them
GatewayCustomerIds == <<"cus_1", "cus_2", "cus_3", "cus_4", "cus_5", "cus_6">>
GatewayPayIds == <<"pay_1", "pay_2", "pay_3", "pay_4">>

\* The first id of `ids` that is not in `used`, if there is one
FreshId(ids, used) ==
    LET free == {i \in 1..Len(ids) : ids[i] \notin used} IN
    IF free = {} THEN {} ELSE {ids[First(free)]}

\* Ids in the hands of requests in flight
HeldIds == {req[q].asaasId : q \in Req}

\* What the gateway answers to createCustomer: the call throws, or the answer
\* carries no id, or it carries the id of the customer it created
CustomerAnswers ==
    {"throws", Undefined}
    \cup FreshId(GatewayCustomerIds,
                 HeldIds \cup {customers[i].asaas_customer_id : i \in 1..Len(customers)})

\* What it answers to createPayment: likewise; the id is a new one, or (a
\* gateway at fault) one it has issued before
PaymentAnswers ==
    LET stored == {payments[i].asaas_payment_id : i \in 1..Len(payments)} IN
    {"throws", Undefined} \cup stored \cup FreshId(GatewayPayIds, HeldIds \cup stored)

GatewayOps == {"gateway createCustomer", "gateway createPayment", "gateway getPayment"}

\* A lookup that would find every customer
AnyCustomer(email, cpf) == {i \in 1..Len(customers) : TRUE}

\* SELECT id, asaas_customer_id FROM customers WHERE email = ? OR cpf = ?
CustomersByEmailOrCpf(email, cpf) ==
    {i \in 1..Len(customers) :
        SqlEq(customers[i].email, email) \/ SqlEq(customers[i].cpf, cpf)}

\* A customers table without UNIQUE keys
NoCustomerKey(row) == TRUE

\* The UNIQUE keys of customers: cpf, email, asaas_customer_id
CustomerUnique(row) ==
    \A i \in 1..Len(customers) :
        /\ customers[i].cpf # row.cpf
        /\ customers[i].email # row.email
        /\ customers[i].asaas_customer_id # row.asaas_customer_id

\* A payments table without its UNIQUE key
NoPaymentKey(row) == TRUE

\* The UNIQUE key of payments (asaas_payment_id)
PaymentUnique(row) ==
    \A i \in 1..Len(payments) : payments[i].asaas_payment_id # row.asaas_payment_id

CustomerExists(customerId) == \E i \in 1..Len(customers) : customers[i].id = customerId

\* A handler that would call the gateway again when a call has thrown
ThrownRetrying(rq, err) ==
    IF err = "GatewayError" THEN rq ELSE [rq EXCEPT !.pc = "cp_catch", !.err = err]

\* A handler that would answer 500 without logging the error
ThrownUnlogged(rq, err) == Answer([rq EXCEPT !.err = err], 500)

\* An exception reaches the catch of createPaymentHandler
Thrown(rq, err) == [rq EXCEPT !.pc = "cp_catch", !.err = err]

\* The request arrives: validation, then the handler up to its first await
PayReceive(r) ==
    /\ CanStart(r)
    /\ Len(payments) + Len(payment_errors) < MaxCreates
    /\ \E form \in env.forms :
          LET rq == [Started("create") EXCEPT !.form = form]
          IN req' = [req EXCEPT ![r] =
                       IF paymentSchema(form) # {} THEN Answer(rq, 400)
                       ELSE [rq EXCEPT !.pc = "cp_select"]]
    /\ UNCHANGED <<tables, now, last, faults, env>>

\* SELECT ... FROM customers WHERE email = ? OR cpf = ?; existingCustomer[0] is
\* any of the rows found (the statement has no ORDER BY)
CpSelect(r) ==
    /\ req[r].pc = "cp_select"
    /\ \E ok \in Outcomes :
          /\ Spend(ok)
          /\ LET rq == Did(req[r], "select customers", ok)
                 found == CustomersByEmailOrCpf(rq.form.email, rq.form.cpf)
             IN IF ~ok THEN req' = [req EXCEPT ![r] = Thrown(rq, "StorageError")]
                ELSE IF found = {}
                THEN req' = [req EXCEPT ![r] = [rq EXCEPT !.pc = "cp_gw_customer"]]
                ELSE \E i \in found :
                        req' = [req EXCEPT ![r] =
                                  [rq EXCEPT !.pc = "cp_update_customer",
                                             !.customerId = customers[i].id,
                                             !.asaasId = customers[i].asaas_customer_id]]
    /\ UNCHANGED <<tables, now, last, env>>

\* An UPDATE that would overwrite the identity of the customer as well
OverwrittenCustomer(row, form) ==
    [row EXCEPT !.nome = form.nome, !.telefone = form.telefone,
                !.email = form.email, !.cpf = form.cpf]

\* SET nome = ?, telefone = ?
UpdatedCustomer(row, form) == [row EXCEPT !.nome = form.nome, !.telefone = form.telefone]

\* UPDATE customers SET nome = ?, telefone = ?, updated_at = NOW() WHERE id = ?
CpUpdateCustomer(r) ==
    /\ req[r].pc = "cp_update_customer"
    /\ \E ok \in Outcomes :
          /\ Spend(ok)
          /\ LET rq == Did(req[r], "update customers", ok)
             IN IF ok
                THEN /\ customers' = [i \in 1..Len(customers) |->
                                        IF customers[i].id = rq.customerId
                                        THEN UpdatedCustomer(customers[i], rq.form)
                                        ELSE customers[i]]
                     /\ req' = [req EXCEPT ![r] = [rq EXCEPT !.pc = "cp_gw_payment"]]
                ELSE /\ req' = [req EXCEPT ![r] = Thrown(rq, "StorageError")]
                     /\ UNCHANGED customers
    /\ UNCHANGED <<payments, webhook_logs, customer_features, payment_errors, now, last, env>>

\* A handler that would take any answer of the gateway as carrying an id
NeverMissing(answer) == FALSE

\* `!asaasCustomer.id`, `!asaasPayment.id`: the answer carries no id
MissingId(answer) == answer = Undefined

\* asaasService.createCustomer, then `if (!asaasCustomer.id) throw`
CpGwCustomer(r) ==
    /\ req[r].pc = "cp_gw_customer"
    /\ \E answer \in CustomerAnswers :
          LET rq == Did(req[r], "gateway createCustomer", answer # "throws")
          IN req' = [req EXCEPT ![r] =
                       IF answer = "throws" THEN Thrown(rq, "GatewayError")
                       ELSE IF MissingId(answer) THEN Thrown(rq, "NoCustomerId")
                       ELSE [rq EXCEPT !.pc = "cp_insert_customer", !.asaasId = answer]]
    /\ UNCHANGED <<tables, now, last, faults, env>>

\* INSERT INTO customers (nome, cpf, email, telefone, asaas_customer_id, ...)
CpInsertCustomer(r) ==
    /\ req[r].pc = "cp_insert_customer"
    /\ \E ok \in Outcomes :
          /\ Spend(ok)
          /\ LET id == Len(customers) + 1
                 row == [id |-> id, nome |-> req[r].form.nome, cpf |-> req[r].form.cpf,
                         email |-> req[r].form.email, telefone |-> req[r].form.telefone,
                         asaas_customer_id |-> req[r].asaasId]
                 accepted == ok /\ CustomerUnique(row)
                 rq == Did(req[r], "insert customers", accepted)
             IN IF accepted
                THEN /\ customers' = Append(customers, row)
                     /\ req' = [req EXCEPT ![r] = [rq EXCEPT !.pc = "cp_gw_payment",
                                                             !.customerId = id,
                                                             !.made.customer = id]]
                ELSE /\ req' = [req EXCEPT ![r] =
                                  Thrown(rq, IF ok THEN "ER_DUP_ENTRY" ELSE "StorageError")]
                     /\ UNCHANGED customers
    /\ UNCHANGED <<payments, webhook_logs, customer_features, payment_errors, now, last, env>>

\* asaasService.createPayment, then `if (!asaasPayment.id) throw`
CpGwPayment(r) ==
    /\ req[r].pc = "cp_gw_payment"
    /\ \E answer \in PaymentAnswers :
          LET rq == [Did(req[r], "gateway createPayment", answer # "throws")
                       EXCEPT !.paymentData = req[r].asaasId]
          IN req' = [req EXCEPT ![r] =
                       IF answer = "throws" THEN Thrown(rq, "GatewayError")
                       ELSE IF MissingId(answer) THEN Thrown(rq, "NoPaymentId")
                       ELSE [rq EXCEPT !.pc = "cp_insert_payment", !.asaasId = answer]]
    /\ UNCHANGED <<tables, now, last, faults, env>>

\* INSERT INTO payments (..., status, ...) VALUES (..., 'PENDING', ...), then
\* res.status(200)
CpInsertPayment(r) ==
    /\ req[r].pc = "cp_insert_payment"
    /\ \E ok \in Outcomes :
          /\ Spend(ok)
          /\ LET id == Len(payments) + 1
                 row == [id |-> id, customer_id |-> req[r].customerId,
                         asaas_payment_id |-> req[r].asaasId,
                         plan_type |-> req[r].form.planType,
                         payment_method |-> req[r].form.paymentMethod,
                         amount |-> Cents(req[r].form.amount),
                         status |-> "PENDING"]
                 accepted == ok /\ PaymentUnique(row) /\ CustomerExists(row.customer_id)
                 rq == Did(req[r], "insert payments", accepted)
             IN IF accepted
                THEN /\ payments' = Append(payments, row)
                     /\ req' = [req EXCEPT ![r] = Answer([rq EXCEPT !.made.payment = id], 200)]
                ELSE /\ req' = [req EXCEPT ![r] =
                                  Thrown(rq, IF ok THEN "ER_DUP_ENTRY" ELSE "StorageError")]
                     /\ UNCHANGED payments
    /\ UNCHANGED <<customers, payment_errors, webhook_logs, customer_features, now, last, env>>

\* A catch that would undo the request's customer INSERT
CpCatchRollingBack(r) ==
    /\ req[r].pc = "cp_catch"
    /\ \E ok \in Outcomes :
          /\ Spend(ok)
          /\ LET rq == Did(req[r], "insert payment_errors", ok)
                 row == [id |-> Len(payment_errors) + 1, error_message |-> rq.err,
                         request_data |-> FormJSON(rq.form)]
             IN /\ payment_errors' = IF ok THEN Append(payment_errors, row) ELSE payment_errors
                /\ req' = [req EXCEPT ![r] = Answer(rq, 500)]
                /\ customers' = IF rq.made.customer # 0
                                THEN SubSeq(customers, 1, Len(customers) - 1)
                                ELSE customers
    /\ UNCHANGED <<payments, webhook_logs, customer_features, now, last, env>>

\* catch: INSERT INTO payment_errors (error_message, request_data, created_at)
\* (its own failure is swallowed), then res.status(500)
CpCatch(r) ==
    /\ req[r].pc = "cp_catch"
    /\ \E ok \in Outcomes :
          /\ Spend(ok)
          /\ LET rq == Did(req[r], "insert payment_errors", ok)
                 id == Len(payment_errors) + 1
                 row == [id |-> id, error_message |-> rq.err,
                         request_data |-> FormJSON(rq.form)]
             IN IF ok
                THEN /\ payment_errors' = Append(payment_errors, row)
                     /\ req' = [req EXCEPT ![r] = Answer([rq EXCEPT !.made.error = id], 500)]
                ELSE /\ req' = [req EXCEPT ![r] = Answer(rq, 500)]
                     /\ UNCHANGED payment_errors
    /\ UNCHANGED <<customers, payments, webhook_logs, customer_features, now, last, env>>

\* ------------------------------------------------ GET /payment-status/:id
\* The statuses the gateway may report: those of the ENUM and one it has that
\* the ENUM has not
GatewayStatuses == Statuses \cup {"RECEIVED_IN_CASH"}

\* A mistaken schema: a status column that would take any text
AnyText(value) == TRUE

\* payments.status ENUM(...): the values the column takes; a statement that
\* assigns another value is rejected (strict SQL mode, the server's default)
StatusEnum(value) == value \in Statuses

\* A lookup that would find a payment whatever the id
AnyPaymentById(paymentId) == {i \in 1..Len(payments) : TRUE}

\* SELECT p.*, c.nome, c.email, c.cpf FROM payments p JOIN customers c
\* ON p.customer_id = c.id WHERE p.id = ?
PaymentsById(paymentId) ==
    {i \in 1..Len(payments) :
        /\ payments[i].id = paymentId
        /\ CustomerExists(payments[i].customer_id)}

RefreshReceive(r) ==
    /\ CanStart(r)
    /\ \E id \in 1..(Len(payments) + 1) :
          req' = [req EXCEPT ![r] = [Started("refresh") EXCEPT !.pc = "ps_select",
                                                               !.wid = id]]
    /\ UNCHANGED <<tables, now, last, faults, env>>

\* The SELECT; 404 when it finds no row
PsSelect(r) ==
    /\ req[r].pc = "ps_select"
    /\ \E ok \in Outcomes :
          /\ Spend(ok)
          /\ LET rq == Did(req[r], "select payments", ok)
                 found == PaymentsById(rq.wid)
             IN req' = [req EXCEPT ![r] =
                   IF ~ok THEN Answer([rq EXCEPT !.err = "StorageError"], 500)
                   ELSE IF found = {} THEN Answer(rq, 404)
                   ELSE [rq EXCEPT !.pc = "ps_gateway",
                                   !.asaasId = payments[First(found)].asaas_payment_id,
                                   !.seen = payments[First(found)].status]]
    /\ UNCHANGED <<tables, now, last, env>>

\* A comparison that would never see a change
NeverDiffers(reported, stored) == FALSE

\* if (asaasPayment.status !== paymentData.status)
Differs(reported, stored) == reported # stored

\* asaasService.getPayment, then the comparison with the status read;
\* res.json (200) when they are equal
PsGateway(r) ==
    /\ req[r].pc = "ps_gateway"
    /\ \E answer \in {"throws"} \cup env.statuses :
          LET rq == Did(req[r], "gateway getPayment", answer # "throws")
          IN req' = [req EXCEPT ![r] =
                       IF answer = "throws"
                       THEN Answer([rq EXCEPT !.err = "GatewayError"], 500)
                       ELSE IF Differs(answer, rq.seen)
                       THEN [rq EXCEPT !.pc = "ps_update", !.target = answer]
                       ELSE Answer([rq EXCEPT !.target = answer], 200)]
    /\ UNCHANGED <<tables, now, last, faults, env>>

\* UPDATE payments SET status = ?, updated_at = NOW() WHERE id = ?, then res.json
PsUpdate(r) ==
    /\ req[r].pc = "ps_update"
    /\ \E ok \in Outcomes :
          /\ Spend(ok)
          /\ LET accepted == ok /\ StatusEnum(req[r].target)
                 rq == Did(req[r], "update payments", accepted)
             IN IF accepted
                THEN /\ payments' = [i \in 1..Len(payments) |->
                                       IF payments[i].id = rq.wid
                                       THEN [payments[i] EXCEPT !.status = rq.target]
                                       ELSE payments[i]]
                     /\ req' = [req EXCEPT ![r] = Answer(rq, 200)]
                ELSE /\ req' = [req EXCEPT ![r] =
                                  Answer([rq EXCEPT !.err = IF ok THEN "ER_TRUNCATED"
                                                            ELSE "StorageError"], 500)]
                     /\ UNCHANGED payments
    /\ UNCHANGED <<customers, payment_errors, webhook_logs, customer_features, now, last, env>>

\* ------------------------------------------------------------ GET /payments
\* A pagination that would always start at the newest row
NoOffset(page, limit) == 0

\* const offset = (page - 1) * limit
Offset(page, limit) == (page - 1) * limit

\* FROM payments p JOIN customers c ON p.customer_id = c.id [WHERE p.status = ?]
ListMatches(status) ==
    {i \in 1..Len(payments) :
        /\ CustomerExists(payments[i].customer_id)
        /\ status # Undefined => SqlEq(payments[i].status, status)}

\* ORDER BY p.created_at DESC: the orders the rows `matching` may come in (rows
\* of the same second come in no defined order)
NewestFirst(matching) ==
    {order \in [1..Cardinality(matching) -> matching] :
        /\ \A a, b \in DOMAIN order : a # b => order[a] # order[b]
        /\ \A a, b \in DOMAIN order :
              a < b => payments[order[a]].created_at >= payments[order[b]].created_at}

\* LIMIT ? OFFSET ? of a result in the given order
Page(order, limit, offset) ==
    [k \in 1..(IF Len(order) - offset < 0 THEN 0
               ELSE IF Len(order) - offset < limit THEN Len(order) - offset
               ELSE limit) |-> payments[order[offset + k]].id]

\* SELECT COUNT(*) as total FROM payments p [WHERE p.status = ?]
CountMatches(status) ==
    Cardinality({i \in 1..Len(payments) :
                    status # Undefined => SqlEq(payments[i].status, status)})

\* Math.ceil(total / limit)
totalPages(total, limit) == (total + limit - 1) \div limit

\* The pagination member of the response
pagination(list) ==
    [page |-> list.page, limit |-> list.limit, total |-> list.total,
     totalPages |-> totalPages(list.total, list.limit),
     hasNext |-> list.page < totalPages(list.total, list.limit),
     hasPrev |-> list.page > 1]

\* ?status= of the requests: absent, or one of two statuses
ListFilters == {Undefined, "PENDING", "OVERDUE"}

\* The request arrives with ?page=&limit= and, in some requests, ?status=
ListReceive(r) ==
    /\ CanStart(r)
    /\ \E page \in 1..MaxPage, limit \in 1..MaxLimit, status \in ListFilters :
          req' = [req EXCEPT ![r] =
                    [Started("list") EXCEPT !.pc = "ls_select",
                                            !.list = [NoList EXCEPT !.page = page,
                                                                    !.limit = limit,
                                                                    !.status = status]]]
    /\ UNCHANGED <<tables, now, last, faults, env>>

\* The SELECT of the page
LsSelect(r) ==
    /\ req[r].pc = "ls_select"
    /\ \E ok \in Outcomes :
          /\ Spend(ok)
          /\ LET rq == Did(req[r], "select payments", ok)
                 list == rq.list
             IN IF ~ok THEN req' = [req EXCEPT ![r] = Answer([rq EXCEPT !.err = "StorageError"], 500)]
                ELSE \E order \in NewestFirst(ListMatches(list.status)) :
                        req' = [req EXCEPT ![r] =
                                  [rq EXCEPT !.pc = "ls_count",
                                             !.list.payments =
                                                 Page(order, list.limit,
                                                      Offset(list.page, list.limit))]]
    /\ UNCHANGED <<tables, now, last, env>>

\* The SELECT COUNT(*), then res.json
LsCount(r) ==
    /\ req[r].pc = "ls_count"
    /\ \E ok \in Outcomes :
          /\ Spend(ok)
          /\ LET rq == Did(req[r], "count payments", ok)
             IN req' = [req EXCEPT ![r] =
                   IF ~ok THEN Answer([rq EXCEPT !.err = "StorageError"], 500)
                   ELSE Answer([rq EXCEPT !.list.total = CountMatches(rq.list.status)], 200)]
    /\ UNCHANGED <<tables, now, last, env>>

\* ------------------------------------------------------------ specifications
\* The actions of POST /create-payment
CreateNext(r) ==
    \/ PayReceive(r)
    \/ CpSelect(r)
    \/ CpUpdateCustomer(r)
    \/ CpGwCustomer(r)
    \/ CpInsertCustomer(r)
    \/ CpGwPayment(r)
    \/ CpInsertPayment(r)
    \/ CpCatch(r)

\* The actions of the payment routes
PayNext(r) ==
    \/ CreateNext(r)
    \/ RefreshReceive(r)
    \/ PsSelect(r)
    \/ PsGateway(r)
    \/ PsUpdate(r)
    \/ Finish(r)

NextPay == \E r \in Req : PayNext(r)

\* The tables as createTables leaves them
EmptyStore ==
    /\ customers = << >>
    /\ payments = << >>
    /\ webhook_logs = << >>
    /\ customer_features = {}
    /\ payment_errors = << >>
    /\ now = 1
    /\ req = [r \in Req |-> Idle]
    /\ last = NoLast

\* The payment routes alone, one request at a time, storage may fail; the
\* gateway reports one status for every payment throughout a run
InitPay ==
    /\ EmptyStore
    /\ faults = MaxFaults
    /\ \E status \in GatewayStatuses :
          env = [secret |-> Undefined, events |-> {}, headers |-> {}, parallel |-> 1,
                 forms |-> Forms, statuses |-> {status}, ids |-> {}]

SpecPay == InitPay /\ [][NextPay]_vars

\* POST /create-payment alone, two requests in flight together, reliable
\* storage; clients post two well-formed bodies that share an e-mail address
\* or a cpf
NextRace == \E r \in Req : CreateNext(r) \/ Finish(r)

InitRace ==
    /\ EmptyStore
    /\ faults = 0
    /\ \E forms \in SUBSET GoodForms :
          /\ Cardinality(forms) = 2
          /\ \E a \in forms, b \in forms : a # b /\ (a.email = b.email \/ a.cpf = b.cpf)
          /\ env = [secret |-> Undefined, events |-> {}, headers |-> {}, parallel |-> 2,
                    forms |-> forms, statuses |-> {}, ids |-> {}]

SpecRace == InitRace /\ [][NextRace]_vars

\* POST /webhook/asaas alone, two deliveries in flight together, reliable
\* storage: the gateway notifies one event type about the first payment
NextDup ==
    \E r \in Req :
        \/ WebhookReceive(r)
        \/ WhInsertLog(r)
        \/ UpsSelect(r)
        \/ UpsUpdate(r)
        \/ UpsVerify(r)
        \/ DeactSelect(r)
        \/ WhMark(r)
        \/ Finish(r)

InitDup ==
    /\ InitStore
    /\ faults = 0
    /\ \E event \in KnownEvents :
          env = [secret |-> Undefined, events |-> {event}, headers |-> {"none"},
                 parallel |-> 2, forms |-> {}, statuses |-> {}, ids |-> {"pay_1"}]

SpecDup == InitDup /\ [][NextDup]_vars

\* POST /webhook/asaas alone, two deliveries in flight together, reliable
\* storage: the gateway notifies PAYMENT_RECEIVED and one of PAYMENT_REFUNDED
\* and PAYMENT_DELETED about the first payment
InitMix ==
    /\ InitStore
    /\ faults = 0
    /\ \E event \in {"PAYMENT_REFUNDED", "PAYMENT_DELETED"} :
          env = [secret |-> Undefined, events |-> {"PAYMENT_RECEIVED", event},
                 headers |-> {"none"}, parallel |-> 2, forms |-> {}, statuses |-> {},
                 ids |-> {"pay_1"}]

SpecMix == InitMix /\ [][NextDup]_vars

\* The continuations of the awaits of a delivery: each runs once the storage
\* operation it waits for has returned or failed
Continue(r) ==
    \/ WhInsertLog(r)
    \/ UpsSelect(r)
    \/ UpsSimilar(r)
    \/ UpsUpdate(r)
    \/ UpsVerify(r)
    \/ DeactSelect(r)
    \/ WhMark(r)
    \/ WhCatch(r)

NextLive == \E r \in Req : WebhookReceive(r) \/ Continue(r) \/ Finish(r)

\* POST /webhook/asaas alone, one delivery at a time, storage may fail, the
\* signature check configured or not, any header; the gateway notifies one
\* event type, about a stored payment, an unknown one or with no payment object
InitLive ==
    /\ InitStore
    /\ faults = MaxFaults
    /\ \E secret \in {Undefined, GoodKey},
          event \in {"PAYMENT_RECEIVED", "PAYMENT_REFUNDED", OtherEvent} :
          env = [secret |-> secret, events |-> {event}, headers |-> HeaderKinds,
                 parallel |-> 1, forms |-> {}, statuses |-> {},
                 ids |-> {"pay_1", "pay_3", Undefined}]

\* Every storage operation returns or fails, and the handler then goes on
SpecLive == InitLive /\ [][NextLive]_vars /\ \A r \in Req : WF_vars(Continue(r))

\* Another client of the database deletes a payment row
PaymentRemoved ==
    /\ \E i \in 1..Len(payments) :
          payments' = [k \in 1..(Len(payments) - 1) |->
                         IF k < i THEN payments[k] ELSE payments[k + 1]]
    /\ UNCHANGED <<customers, webhook_logs, customer_features, payment_errors,
                   now, req, last, faults, env>>

\* POST /webhook/asaas alone, one delivery at a time, reliable storage, while
\* another client of the database may delete payment rows: the gateway
\* notifies one event type about the two stored payments
NextGone ==
    \/ PaymentRemoved
    \/ \E r \in Req :
          \/ WebhookReceive(r)
          \/ WhInsertLog(r)
          \/ UpsSelect(r)
          \/ UpsSimilar(r)
          \/ UpsUpdate(r)
          \/ UpsVerify(r)
          \/ DeactSelect(r)
          \/ WhMark(r)
          \/ Finish(r)

InitGone ==
    /\ InitStore
    /\ faults = 0
    /\ \E event \in KnownEvents :
          env = [secret |-> Undefined, events |-> {event}, headers |-> {"none"},
                 parallel |-> 1, forms |-> {}, statuses |-> {}, ids |-> {"pay_1", "pay_2"}]

SpecGone == InitGone /\ [][NextGone]_vars

\* GET /payments alone, one request at a time, storage may fail, over a table
\* that payment creations and webhooks have filled: up to MaxRows payments of
\* the first customer, each PENDING or OVERDUE, created in the order of their
\* ids within two seconds
NextList ==
    \E r \in Req :
        \/ ListReceive(r)
        \/ LsSelect(r)
        \/ LsCount(r)
        \/ Finish(r)

ListedRow(i, status, createdAt) ==
    [id |-> i, customer_id |-> 1, asaas_payment_id |-> GatewayPayIds[i],
     plan_type |-> "ESSENCIAL", payment_method |-> "PIX", amount |-> 4990,
     status |-> status, created_at |-> createdAt]

InitList ==
    /\ customers = <<CustomerRow(1)>>
    /\ \E n \in 0..MaxRows :
          \E status \in [1..n -> {"PENDING", "OVERDUE"}], createdAt \in [1..n -> 1..2] :
              /\ \A a, b \in 1..n : a < b => createdAt[a] <= createdAt[b]
              /\ payments = [i \in 1..n |-> ListedRow(i, status[i], createdAt[i])]
    /\ webhook_logs = << >>
    /\ customer_features = {}
    /\ payment_errors = << >>
    /\ now = 2
    /\ req = [r \in Req |-> Idle]
    /\ last = NoLast
    /\ faults = MaxFaults
    /\ env = [secret |-> Undefined, events |-> {}, headers |-> {}, parallel |-> 1,
              forms |-> {}, statuses |-> {}, ids |-> {}]

SpecList == InitList /\ [][NextList]_vars

\* Every route, one request at a time, reliable storage.  Throughout a run the
\* gateway notifies one event type (about the first payment it issued, or with
\* no payment object) and reports one status: any event type with the status
\* the ENUM has not, or any status with the event type the switch has not.
\* Clients post one well-formed body and one malformed.
NextAll ==
    \E r \in Req :
        \/ WebhookReceive(r)
        \/ WhInsertLog(r)
        \/ UpsSelect(r)
        \/ UpsSimilar(r)
        \/ UpsUpdate(r)
        \/ UpsVerify(r)
        \/ DeactSelect(r)
        \/ WhMark(r)
        \/ WhCatch(r)
        \/ ReprocessReceive(r)
        \/ RpSelect(r)
        \/ PayNext(r)

InitAll ==
    /\ EmptyStore
    /\ faults = 0
    /\ \E event \in Events, status \in GatewayStatuses :
          /\ event = OtherEvent \/ status \notin Statuses
          /\ env = [secret |-> Undefined, events |-> {event}, headers |-> {"none"},
                 parallel |-> 1, statuses |-> {status}, ids |-> {"pay_1", Undefined},
                 forms |-> {GoodForm("a@x.com", "12345678901", "ESSENCIAL"),
                            GoodForm(Undefined, "12345678901", "ESSENCIAL")}]

SpecAll == InitAll /\ [][NextAll]_vars

\* ================================================================== claims
\* Vocabulary of the properties below
HasPayment(pays, pid) == \E i \in 1..Len(pays) : pays[i].asaas_payment_id = pid

StatusIn(pays, pid) ==
    IF HasPayment(pays, pid)
    THEN pays[CHOOSE i \in 1..Len(pays) : pays[i].asaas_payment_id = pid].status
    ELSE "<absent>"

\* The event table of the specification
TableStatus ==
    [e \in KnownEvents |->
        CASE e \in {"PAYMENT_CREATED", "PAYMENT_AWAITING_CONFIRMATION", "PAYMENT_RESTORED"}
               -> "PENDING"
          [] e = "PAYMENT_CONFIRMED" -> "CONFIRMED"
          [] e = "PAYMENT_RECEIVED" -> "RECEIVED"
          [] e = "PAYMENT_OVERDUE" -> "OVERDUE"
          [] e = "PAYMENT_DELETED" -> "CANCELLED"
          [] e = "PAYMENT_REFUNDED" -> "REFUNDED"]

\* Slot r holds a webhook delivery that has been answered
Answered(r) == req[r].kind = "webhook" /\ req[r].pc = "done"

\* Slot r holds a reprocess request that has been answered
Reprocessed(r) == req[r].kind = "reprocess" /\ req[r].pc = "done"

Failed(rq, op) == \E i \in 1..Len(rq.ops) : rq.ops[i] = <<op, FALSE>>

Succeeded(rq, op) == \E i \in 1..Len(rq.ops) : rq.ops[i] = <<op, TRUE>>

\* The delivery in slot r repeats the delivery answered just before it (same
\* event type and payment id), and that payment exists
Redelivery(r) ==
    /\ Answered(r)
    /\ last.row # 0
    /\ req[r].logs0[last.row].payload = JSONstringify(req[r].body)
    /\ req[r].body.event \in KnownEvents
    /\ HasPayment(req[r].pays0, req[r].body.payment)

\* C1: when the same event for the same existing payment is delivered twice in
\* a row, the payment's status after the second delivery is its status after
\* the first, and updatePaymentStatus returned true in both deliveries.
C1_Idempotent ==
    \A r \in Req :
        Redelivery(r) =>
            /\ StatusIn(payments, req[r].body.payment)
                 = StatusIn(req[r].pays0, req[r].body.payment)
            /\ req[r].success = "true"
            /\ last.success = "true"

C1_Witness ==
    \E r \in Req :
        /\ Redelivery(r)
        /\ req[r].body.event = "PAYMENT_RECEIVED"
        /\ StatusIn(payments, req[r].body.payment) = "RECEIVED"

\* C2: after a delivery of a known event type for an existing payment the
\* stored status is the one the event table gives, whatever it was before;
\* after a delivery of any other event type every payment row is as before.
C2_EventTable ==
    \A r \in Req :
        Answered(r) =>
            LET rq == req[r] IN
            /\ (rq.body.event \in KnownEvents /\ HasPayment(rq.pays0, rq.body.payment))
                  => StatusIn(payments, rq.body.payment) = TableStatus[rq.body.event]
            /\ rq.body.event \notin KnownEvents => payments = rq.pays0

C2_Witness ==
    \E r \in Req :
        /\ Answered(r)
        /\ req[r].body.event = "PAYMENT_CREATED"
        /\ StatusIn(req[r].pays0, req[r].body.payment) = "REFUNDED"
        /\ StatusIn(payments, req[r].body.payment) = "PENDING"

\* The customer the payment `pid` belongs to has an active feature row
Activated(pays, pid) ==
    \E i \in 1..Len(pays) :
        /\ pays[i].asaas_payment_id = pid
        /\ \E f \in customer_features :
              f.customer_id = pays[i].customer_id /\ f.is_active

\* C3: after a PAYMENT_RECEIVED delivery for an existing PENDING payment has
\* been answered, the payment is RECEIVED and its customer has an active
\* feature row.
C3_ReceivedActivates ==
    \A r \in Req :
        (/\ Answered(r)
         /\ req[r].body.event = "PAYMENT_RECEIVED"
         /\ StatusIn(req[r].pays0, req[r].body.payment) = "PENDING")
        => /\ StatusIn(payments, req[r].body.payment) = "RECEIVED"
           /\ Activated(payments, req[r].body.payment)

\* C4: a delivery whose payment id matches no payment row still appends its
\* webhook_logs row, is answered 200 and leaves the payments table as it was.
C4_UnknownPayment ==
    \A r \in Req :
        LET rq == req[r] IN
        (/\ Answered(r)
         /\ rq.body.payment # Undefined
         /\ ~HasPayment(rq.pays0, rq.body.payment))
        => /\ rq.res = 200
           /\ Len(webhook_logs) = Len(rq.logs0) + 1
           /\ webhook_logs[Len(webhook_logs)].payment_id = rq.body.payment
           /\ webhook_logs[Len(webhook_logs)].event_type = rq.body.event
           /\ payments = rq.pays0

C4_Witness ==
    \E r \in Req :
        /\ Answered(r)
        /\ req[r].body.payment = "pay_3"
        /\ req[r].body.event = "PAYMENT_RECEIVED"
        /\ req[r].success = "false"
        /\ Len(webhook_logs) = 2

\* What `payment_id` holds for a body: its payment id, NULL when it has none
StoredId(body) == IF body.payment = Undefined THEN NULL ELSE body.payment

Unconfigured == {Undefined, "", Placeholder}

\* C5: with a secret configured a delivery reaches the handler only if its
\* asaas-signature header is the HMAC of the body under that secret, and one
\* with a missing or different header is answered 401 with no storage
\* operation made, no webhook_logs row and no payments change; with no secret
\* configured (unset, empty, placeholder) no delivery is answered 401.
C5_Signature ==
    \A r \in Req :
        req[r].kind = "webhook" =>
            LET rq == req[r]
                valid == rq.signature = [present |-> TRUE, key |-> env.secret,
                                         text |-> JSONstringify(rq.body)]
            IN /\ (env.secret \notin Unconfigured /\ rq.pc = "wh_insert") => valid
               /\ (env.secret \notin Unconfigured /\ rq.pc = "done" /\ rq.ops = << >>)
                     => (rq.res = 401 /\ ~valid)
               /\ rq.res = 401 => /\ env.secret \notin Unconfigured
                                  /\ rq.ops = << >>
                                  /\ webhook_logs = rq.logs0
                                  /\ payments = rq.pays0
               /\ env.secret \in Unconfigured => rq.res # 401

C5_Witness ==
    \E r \in Req :
        /\ req[r].kind = "webhook"
        /\ req[r].pc = "wh_insert"
        /\ env.secret = GoodKey
        /\ req[r].signature.present
        /\ Len(webhook_logs) = 1

PaymentsOps == {"select payments", "update payments"}

\* C6: in every accepted delivery the webhook_logs insert is the first storage
\* operation, before any read or write of payments; and when the delivery is
\* later answered 500, the row it inserted is still there with its payment id,
\* event type and payload as inserted.
C6_LogFirst ==
    \A r \in Req :
        req[r].kind = "webhook" =>
            LET rq == req[r] IN
            /\ (\E i \in 1..Len(rq.ops) : rq.ops[i][1] \in PaymentsOps)
                  => (rq.ops[1] = <<"insert webhook_logs", TRUE>> /\ rq.row # 0)
            /\ (rq.pc = "done" /\ rq.res = 500 /\ rq.row # 0)
                  => /\ rq.row <= Len(webhook_logs)
                     /\ webhook_logs[rq.row].payment_id = StoredId(rq.body)
                     /\ webhook_logs[rq.row].event_type = rq.body.event
                     /\ webhook_logs[rq.row].payload = JSONstringify(rq.body)

C6_Witness ==
    \E r \in Req :
        /\ Answered(r)
        /\ req[r].res = 500
        /\ req[r].row # 0
        /\ Succeeded(req[r], "update payments")
        /\ webhook_logs[req[r].row].error_message = "StorageError"

\* A delivery the signature check let through, carrying a payment id
AcceptedWithId(r) ==
    Answered(r) /\ req[r].res # 401 /\ req[r].body.payment # Undefined

\* C7 as stated: every accepted delivery that carries a payment id is answered
\* 200, whatever the event type, the payment and the result of the update.
C7_Always200 == \A r \in Req : AcceptedWithId(r) => req[r].res = 200

\* C7: an accepted delivery that carries a payment id is answered 200 exactly
\* when its webhook_logs insert and its mark-processed update both succeed,
\* whatever the event type, whether the payment exists and whatever
\* updatePaymentStatus returned; otherwise it is answered 500.
C7_200UnlessLogFails ==
    \A r \in Req :
        AcceptedWithId(r) =>
            /\ req[r].res \in {200, 500}
            /\ req[r].res = 200 <=> /\ ~Failed(req[r], "insert webhook_logs")
                                    /\ ~Failed(req[r], "mark webhook_logs")

C7_Witness ==
    \E r \in Req :
        /\ AcceptedWithId(r)
        /\ req[r].res = 200
        /\ Failed(req[r], "update payments")
        /\ req[r].success = "false"

\* An exception left the handler of the delivery in slot r
Escaped(r) ==
    /\ Answered(r)
    /\ \/ Failed(req[r], "insert webhook_logs")
       \/ Failed(req[r], "mark webhook_logs")
       \/ req[r].err = "TypeError"

\* Rows of webhook_logs whose error_message the delivery in slot r changed
ErrorWritten(r) ==
    {i \in 1..Len(webhook_logs) :
        webhook_logs[i].error_message #
            (IF i <= Len(req[r].logs0) THEN req[r].logs0[i].error_message ELSE NULL)}

\* C8: when the log insert or the mark-processed update fails, or a handler of
\* a known event throws, the delivery is answered 500, no row's processed flag
\* is set by it, and error_message is written on at most one row, one that has
\* the delivery's payment id and is the most recent of those.
C8_Escaped500 ==
    \A r \in Req :
        Escaped(r) =>
            /\ req[r].res = 500
            /\ \A i \in 1..Len(webhook_logs) :
                  webhook_logs[i].processed =
                      (i <= Len(req[r].logs0) /\ req[r].logs0[i].processed)
            /\ Cardinality(ErrorWritten(r)) <= 1
            /\ \A i \in ErrorWritten(r) :
                  /\ req[r].body.payment # Undefined
                  /\ webhook_logs[i].payment_id = req[r].body.payment
                  /\ \A j \in 1..Len(webhook_logs) :
                        webhook_logs[j].payment_id = req[r].body.payment
                           => webhook_logs[j].created_at <= webhook_logs[i].created_at

C8_Witness ==
    \E r \in Req :
        /\ Escaped(r)
        /\ Failed(req[r], "mark webhook_logs")
        /\ Len(webhook_logs) = 2
        /\ webhook_logs[1].payment_id # webhook_logs[2].payment_id
        /\ ErrorWritten(r) = {2}

\* Rows with the payment id (NULL for none) and event type of `body`
SameDelivery(body) ==
    {i \in 1..Len(webhook_logs) :
        /\ webhook_logs[i].payment_id = StoredId(body)
        /\ webhook_logs[i].event_type = body.event}

\* C9: after a delivery is answered 200, the most recently created row with
\* its payment id (NULL when it carries none) and event type is processed.
C9_Marked ==
    \A r \in Req :
        (Answered(r) /\ req[r].res = 200) =>
            /\ SameDelivery(req[r].body) # {}
            /\ \E i \in SameDelivery(req[r].body) :
                  /\ \A j \in SameDelivery(req[r].body) : j <= i
                  /\ webhook_logs[i].processed

\* The payload stored in the row a reprocess request names
StoredBody(r) == JSONparse(req[r].logs0[req[r].wid].payload)

\* An answered reprocess request named a row whose payload has a known event
\* and a stored payment
Replayed(r) ==
    /\ Reprocessed(r)
    /\ req[r].wid <= Len(req[r].logs0)
    /\ StoredBody(r).event \in KnownEvents
    /\ HasPayment(req[r].pays0, StoredBody(r).payment)

\* C10 as stated: reprocessing a row leaves its payment in the status a fresh
\* delivery of the stored payload leaves it in, for all eight event types.
C10_ReprocessAsFresh ==
    \A r \in Req :
        Replayed(r) =>
            StatusIn(payments, StoredBody(r).payment) = TableStatus[StoredBody(r).event]

\* C11: reprocessing an existing webhook_logs id is answered 200, leaves that
\* row processed and appends no row.
C11_ReprocessMarks ==
    \A r \in Req :
        (Reprocessed(r) /\ req[r].wid <= Len(req[r].logs0)) =>
            /\ req[r].res = 200
            /\ webhook_logs[req[r].wid].processed
            /\ Len(webhook_logs) = Len(req[r].logs0)

\* No row of any table differs from what the request in slot r found
Untouched(r) ==
    /\ customers = req[r].custs0
    /\ payments = req[r].pays0
    /\ webhook_logs = req[r].logs0
    /\ payment_errors = req[r].errs0
    /\ customer_features = req[r].feats0

NoGatewayCall(rq) == \A i \in 1..Len(rq.ops) : rq.ops[i][1] \notin GatewayOps

\* The request in slot r, answered, named an id no row has: a payment id for
\* the status refresh, a webhook_logs id for the reprocess
UnknownId(r) ==
    /\ req[r].pc = "done"
    /\ \/ /\ req[r].kind = "refresh"
          /\ \A i \in 1..Len(req[r].pays0) : req[r].pays0[i].id # req[r].wid
       \/ /\ req[r].kind = "reprocess"
          /\ \A i \in 1..Len(req[r].logs0) : req[r].logs0[i].id # req[r].wid

\* C12: GET /payment-status/:id with an id of no payment and POST
\* /webhook/reprocess/:webhookId with an id of no webhook_logs row are answered
\* 404, call the gateway not at all and change no row of any table.
C12_NotFound ==
    \A r \in Req :
        UnknownId(r) =>
            /\ req[r].res = 404
            /\ NoGatewayCall(req[r])
            /\ Untouched(r)

C12_Witness ==
    \E r \in Req :
        /\ UnknownId(r)
        /\ req[r].kind = "refresh"
        /\ Len(payments) = 1
        /\ Len(webhook_logs) = 1

\* The body of the create-payment request in slot r has the e-mail address or
\* the cpf of a customer row the request found
KnownCustomer(r) ==
    \E i \in 1..Len(req[r].custs0) :
        \/ req[r].custs0[i].email = req[r].form.email
        \/ req[r].custs0[i].cpf = req[r].form.cpf

Created(r) == req[r].kind = "create" /\ req[r].pc = "done"

\* C13: a create-payment request whose e-mail address or cpf is that of an
\* existing customer row creates no customer row; one that matches no row and
\* is answered 200 creates exactly one, with its e-mail address and cpf.
C13_FindOrCreate ==
    \A r \in Req :
        Created(r) =>
            /\ KnownCustomer(r) =>
                  /\ Len(customers) = Len(req[r].custs0)
                  /\ \A i \in 1..Len(customers) :
                        /\ customers[i].id = req[r].custs0[i].id
                        /\ customers[i].email = req[r].custs0[i].email
                        /\ customers[i].cpf = req[r].custs0[i].cpf
            /\ (~KnownCustomer(r) /\ req[r].res = 200) =>
                  /\ Len(customers) = Len(req[r].custs0) + 1
                  /\ SubSeq(customers, 1, Len(req[r].custs0)) = req[r].custs0
                  /\ customers[Len(customers)].email = req[r].form.email
                  /\ customers[Len(customers)].cpf = req[r].form.cpf

C13_Witness ==
    \E r \in Req :
        /\ Created(r)
        /\ req[r].res = 200
        /\ req[r].form.email = "a@x.com"
        /\ req[r].form.cpf = "11122233344"
        /\ Len(req[r].custs0) = 2
        /\ Len(customers) = 2

\* The customer INSERT of the request in slot r was refused for a duplicate key
RefusedCustomer(r) ==
    /\ Created(r)
    /\ Failed(req[r], "insert customers")
    /\ req[r].err = "ER_DUP_ENTRY"

\* C14: in every state, also those two interleaved create-payment requests for
\* the same new e-mail address or cpf reach, no two customer rows share an
\* e-mail address and no two a cpf; and a request whose customer INSERT the
\* unique key refuses is answered 500 and creates no payment row.
C14_UniqueCustomers ==
    /\ \A i, j \in 1..Len(customers) :
          i # j => /\ customers[i].email # customers[j].email
                   /\ customers[i].cpf # customers[j].cpf
    /\ \A r \in Req :
          RefusedCustomer(r) =>
              /\ req[r].res = 500
              /\ req[r].made.payment = 0
              /\ \A i \in 1..Len(payments) :
                    payments[i].asaas_payment_id # req[r].asaasId

C14_Witness ==
    \E r \in Req :
        /\ RefusedCustomer(r)
        /\ Len(customers) = 1
        /\ customers[1].cpf = req[r].form.cpf
        /\ customers[1].email # req[r].form.email
        /\ req[r].made.error # 0

\* A step in which the request in slot r inserts the payment row `row`
InsertsPayment(r, row) ==
    /\ req[r].kind = "create"
    /\ req'[r].made.payment = row.id
    /\ req[r].made.payment = 0

\* C15: a step that adds a payment row adds one row, with status PENDING, for a
\* request that has obtained a payment id from the gateway; the row carries that
\* id and the id of a customer row that exists. No two payment rows ever carry
\* the same asaas_payment_id.
C15_PendingInsert ==
    /\ [](\A i, j \in 1..Len(payments) :
             i # j => payments[i].asaas_payment_id # payments[j].asaas_payment_id)
    /\ [][Len(payments') # Len(payments) =>
             /\ Len(payments') = Len(payments) + 1
             /\ SubSeq(payments', 1, Len(payments)) = payments
             /\ LET row == payments'[Len(payments')] IN
                   /\ row.status = "PENDING"
                   /\ row.asaas_payment_id \in
                         {GatewayPayIds[k] : k \in 1..Len(GatewayPayIds)}
                   /\ \E i \in 1..Len(customers') : customers'[i].id = row.customer_id
                   /\ \E r \in Req :
                         /\ InsertsPayment(r, row)
                         /\ req[r].ops[Len(req[r].ops)] = <<"gateway createPayment", TRUE>>
                         /\ req[r].asaasId = row.asaas_payment_id]_vars

C15_Witness ==
    \E r \in Req :
        /\ Created(r)
        /\ req[r].res = 200
        /\ req[r].made.payment = 2
        /\ Len(payments) = 2
        /\ payments[2].status = "PENDING"
        /\ payments[2].customer_id = payments[1].customer_id
        /\ payments[2].asaas_payment_id = "pay_2"

\* The steps of payment creation after validation
CreateSteps ==
    {"select customers", "update customers", "gateway createCustomer",
     "insert customers", "gateway createPayment", "insert payments"}

\* The create-payment request in slot r is answered and one of its steps failed,
\* or the gateway's answer carried no id
StepFailed(r) ==
    /\ Created(r)
    /\ paymentSchema(req[r].form) = {}
    /\ \/ \E op \in CreateSteps : Failed(req[r], op)
       \/ req[r].err \in {"NoCustomerId", "NoPaymentId"}

\* The row holds the message of the error and every field of the body
HoldsError(row, rq) ==
    /\ row.error_message = rq.err
    /\ Len(row.request_data) = 7
    /\ \A f \in DOMAIN rq.form :
          \E k \in 1..Len(row.request_data) : row.request_data[k] = <<f, rq.form[f]>>

\* C16: a create-payment request that passed validation and had a step fail is
\* answered 500 and leaves the payments table as it was; it attempts the
\* payment_errors INSERT once, and when storage accepts it exactly one row is
\* appended, holding the error message and the request body; when storage
\* refuses it the table is left as it was.
C16_FailureLogged ==
    \A r \in Req :
        StepFailed(r) =>
            /\ req[r].res = 500
            /\ req[r].made.payment = 0
            /\ payments = req[r].pays0
            /\ req[r].err # NoError
            /\ Cardinality({k \in 1..Len(req[r].ops) :
                               req[r].ops[k][1] = "insert payment_errors"}) = 1
            /\ IF Succeeded(req[r], "insert payment_errors")
               THEN /\ Len(payment_errors) = Len(req[r].errs0) + 1
                    /\ SubSeq(payment_errors, 1, Len(req[r].errs0)) = req[r].errs0
                    /\ HoldsError(payment_errors[Len(payment_errors)], req[r])
               ELSE payment_errors = req[r].errs0

C16_Witness ==
    \E r \in Req :
        /\ StepFailed(r)
        /\ req[r].err = "NoPaymentId"
        /\ Succeeded(req[r], "insert customers")
        /\ Len(customers) = 1
        /\ Len(payment_errors) = 1
        /\ payment_errors[1].error_message = "NoPaymentId"

\* The create-payment request in slot r, answered, had a body with a field
\* missing or malformed
Invalid(r) == Created(r) /\ req[r].form \in BadForms

\* C17: a create-payment request whose body has a required field missing or
\* malformed is answered 400 without a single storage or gateway call, and
\* every table is as it was when the request arrived.
C17_ValidationFirst ==
    \A r \in Req :
        Invalid(r) =>
            /\ req[r].res = 400
            /\ req[r].ops = << >>
            /\ NoGatewayCall(req[r])
            /\ Untouched(r)
            /\ req[r].made = NoneMade

C17_Witness ==
    \E r \in Req :
        /\ Invalid(r)
        /\ req[r].form.cpf = "123"
        /\ req[r].res = 400
        /\ Len(customers) = 1
        /\ Len(payments) = 1

\* The refresh in slot r had its UPDATE refused for a value outside the ENUM
RefusedStatus(r) ==
    /\ req[r].kind = "refresh"
    /\ req[r].pc = "done"
    /\ req[r].err = "ER_TRUNCATED"

\* C18: in every state reached by payment creations, webhook deliveries,
\* reprocesses and status refreshes, whatever status the gateway reports to the
\* refresh, the status of every payment row is one of PENDING, CONFIRMED,
\* RECEIVED, OVERDUE, REFUNDED, CANCELLED.
C18_StatusInEnum ==
    \A i \in 1..Len(payments) :
        payments[i].status \in
            {"PENDING", "CONFIRMED", "RECEIVED", "OVERDUE", "REFUNDED", "CANCELLED"}

C18_Witness ==
    \E r \in Req :
        /\ RefusedStatus(r)
        /\ req[r].target = "RECEIVED_IN_CASH"
        /\ req[r].res = 500
        /\ req[r].seen = "RECEIVED"
        /\ payments[req[r].wid].status = "RECEIVED"

\* The status refresh in slot r is answered
Refreshed(r) == req[r].kind = "refresh" /\ req[r].pc = "done"

\* C19: when a status refresh of an existing payment is answered 200, the
\* gateway was asked, the stored status of that payment is the status the
\* gateway reported and the response carries it; when the gateway call fails
\* the refresh is answered 500 and the payments table is as it was.
C19_RefreshStores ==
    \A r \in Req :
        Refreshed(r) =>
            /\ req[r].res = 200 =>
                  /\ Succeeded(req[r], "gateway getPayment")
                  /\ payments[req[r].wid].status \in env.statuses
                  /\ req[r].target = payments[req[r].wid].status
            /\ Failed(req[r], "gateway getPayment") =>
                  /\ req[r].res = 500
                  /\ payments = req[r].pays0

C19_Witness ==
    \E r \in Req :
        /\ Refreshed(r)
        /\ req[r].res = 200
        /\ req[r].wid = 1
        /\ req[r].pays0[1].status = "PENDING"
        /\ payments[1].status = "CONFIRMED"

\* The edges of the payment lifecycle
LifecycleEdges ==
    {<<"PENDING", "CONFIRMED">>, <<"CONFIRMED", "RECEIVED">>, <<"PENDING", "OVERDUE">>,
     <<"RECEIVED", "REFUNDED">>}
    \cup {<<s, "CANCELLED">> : s \in Statuses}

\* C20: over any sequence of webhook deliveries, every step that changes the
\* stored status of a payment follows an edge of the lifecycle (PENDING to
\* CONFIRMED, CONFIRMED to RECEIVED, PENDING to OVERDUE, any status to
\* CANCELLED, RECEIVED to REFUNDED).
C20_LifecycleEdges ==
    [][\A i \in 1..Len(payments) :
          (i <= Len(payments') /\ payments'[i].status # payments[i].status) =>
              <<payments[i].status, payments'[i].status>> \in LifecycleEdges]_vars

\* C21: when deliveries of one event for one existing payment are in flight
\* together, in every interleaving of their storage operations each answered
\* delivery is answered 200, its updatePaymentStatus returned true, and the
\* stored status of the payment is the status of the event.
C21_ConcurrentDuplicates ==
    \A r \in Req :
        Answered(r) =>
            /\ req[r].res = 200
            /\ req[r].success = "true"
            /\ StatusIn(payments, req[r].body.payment) = TableStatus[req[r].body.event]

\* Both deliveries passed the status check before either wrote
C21_Witness ==
    /\ \A r \in Req :
          /\ Answered(r)
          /\ req[r].body.event = "PAYMENT_RECEIVED"
          /\ Succeeded(req[r], "update payments")
          /\ StatusIn(req[r].pays0, "pay_1") = "PENDING"
    /\ StatusIn(payments, "pay_1") = "RECEIVED"

\* What a webhook_logs row keeps for good
Logged(row) ==
    [id |-> row.id, payment_id |-> row.payment_id, event_type |-> row.event_type,
     payload |-> row.payload]

\* C22: webhook_logs is append-only. A delivery that passes the signature check
\* attempts the INSERT once and, when storage accepts it, adds exactly one row,
\* carrying the delivery's event type and payment id (a redelivery adds a row
\* of its own); a delivery answered 401 adds none. No step removes a row, adds
\* more than one, or changes the payment_id, event_type or payload of a row
\* that is there.
C22_AppendOnly ==
    /\ [](\A r \in Req :
             Answered(r) =>
                 /\ req[r].res = 401 => req[r].ops = << >>
                 /\ req[r].res # 401 =>
                       Cardinality({k \in 1..Len(req[r].ops) :
                                       req[r].ops[k][1] = "insert webhook_logs"}) = 1
                 /\ Len(webhook_logs) = Len(req[r].logs0)
                       + (IF Succeeded(req[r], "insert webhook_logs") THEN 1 ELSE 0)
                 /\ Succeeded(req[r], "insert webhook_logs") =>
                       /\ webhook_logs[Len(webhook_logs)].event_type = req[r].body.event
                       /\ webhook_logs[Len(webhook_logs)].payment_id
                             = (IF req[r].body.payment = Undefined THEN NULL
                                ELSE req[r].body.payment))
    /\ [][/\ Len(webhook_logs') \in {Len(webhook_logs), Len(webhook_logs) + 1}
          /\ \A i \in 1..Len(webhook_logs) :
                Logged(webhook_logs'[i]) = Logged(webhook_logs[i])]_vars

\* A redelivery has added a second row for the same event of the same payment,
\* and a row has had its error message written
C22_Witness ==
    \E r \in Req :
        /\ Answered(r)
        /\ Len(webhook_logs) = 2
        /\ Len(req[r].logs0) = 1
        /\ webhook_logs[1].payload = webhook_logs[2].payload
        /\ webhook_logs[1].payment_id # NULL
        /\ \E i \in 1..2 : webhook_logs[i].error_message # NULL

\* How many times the request has run the operation
Calls(rq, op) == Cardinality({k \in 1..Len(rq.ops) : rq.ops[k][1] = op})

\* The gateway calls each kind of request may make
GatewayCallsOf(kind) ==
    CASE kind = "create" -> {"gateway createCustomer", "gateway createPayment"}
      [] kind = "refresh" -> {"gateway getPayment"}
      [] OTHER -> {}

\* C23: no request repeats a gateway call. At every point of a create-payment
\* request it has made at most one createCustomer and at most one createPayment
\* call, a status refresh at most one getPayment call, and a webhook delivery
\* or reprocess none; a call that failed is the request's last gateway call,
\* and the request is answered 500.
C23_NoRetry ==
    \A r \in Req :
        /\ \A op \in GatewayOps :
              Calls(req[r], op) <= (IF op \in GatewayCallsOf(req[r].kind) THEN 1 ELSE 0)
        /\ \A k \in 1..Len(req[r].ops) :
              (req[r].ops[k][1] \in GatewayOps /\ ~req[r].ops[k][2]) =>
                  /\ \A j \in (k + 1)..Len(req[r].ops) : req[r].ops[j][1] \notin GatewayOps
                  /\ req[r].pc = "done" => req[r].res = 500

C23_Witness ==
    \E r \in Req :
        /\ Created(r)
        /\ Succeeded(req[r], "gateway createCustomer")
        /\ Failed(req[r], "gateway createPayment")
        /\ req[r].res = 500
        /\ Len(payments) = 0

\* C24: when the UPDATE of updatePaymentStatus fails in a webhook delivery, the
\* delivery is answered 200 and the row it logged carries an error message.
C24_UpdateErrorLogged ==
    \A r \in Req :
        (Answered(r) /\ Failed(req[r], "update payments")) =>
            /\ req[r].res = 200
            /\ webhook_logs[req[r].row].error_message # NULL

\* GET /payments in slot r is answered 200 and had a status filter
Listed(r) ==
    /\ req[r].kind = "list"
    /\ req[r].pc = "done"
    /\ req[r].res = 200
    /\ req[r].list.status # Undefined

\* The rows of the table with the status
WithStatus(status) == {i \in 1..Len(payments) : payments[i].status = status}

\* C25: GET /payments?status=s&page=p&limit=l with p >= 1 and l >= 1, answered
\* 200, returns distinct rows of status s, as many as are left after skipping
\* (p-1)*l and at most l, in an order by created_at, newest first, in which the
\* k-th returned row stands at place (p-1)*l + k; its pagination has total =
\* the number of rows of status s, totalPages = ceil(total / l), hasNext
\* exactly when p < totalPages and hasPrev exactly when p > 1; no table changed.
C25_Pagination ==
    \A r \in Req :
        Listed(r) =>
            LET list == req[r].list
                rows == list.payments
                same == WithStatus(list.status)
                skip == (list.page - 1) * list.limit
                left == IF Cardinality(same) > skip THEN Cardinality(same) - skip ELSE 0
                meta == pagination(list)
                Newer(i) == {j \in same : payments[j].created_at > payments[i].created_at}
                AsNew(i) == {j \in same : payments[j].created_at >= payments[i].created_at}
            IN /\ \A k \in 1..Len(rows) : rows[k] \in same
               /\ \A k, j \in 1..Len(rows) : k # j => rows[k] # rows[j]
               /\ Len(rows) = (IF left < list.limit THEN left ELSE list.limit)
               /\ \A k \in 1..Len(rows) :
                     /\ Cardinality(Newer(rows[k])) <= skip + k - 1
                     /\ Cardinality(AsNew(rows[k])) >= skip + k
               /\ meta.total = Cardinality(same)
               /\ meta.totalPages * list.limit >= meta.total
               /\ (meta.totalPages - 1) * list.limit < meta.total
               /\ meta.hasNext <=> list.page < meta.totalPages
               /\ meta.hasPrev <=> list.page > 1
               /\ Untouched(r)

\* The second page of the two OVERDUE rows of a table of three, one row a page
C25_Witness ==
    \E r \in Req :
        /\ Listed(r)
        /\ req[r].list.status = "OVERDUE"
        /\ req[r].list.page = 2
        /\ req[r].list.limit = 1
        /\ Cardinality(WithStatus("OVERDUE")) = 2
        /\ Len(payments) = 3
        /\ Len(req[r].list.payments) = 1
        /\ pagination(req[r].list).hasPrev
        /\ ~pagination(req[r].list).hasNext

\* The customer of the payment with the gateway id, 0 when there is none
CustomerOf(pid) ==
    IF HasPayment(payments, pid)
    THEN payments[CHOOSE i \in 1..Len(payments) : payments[i].asaas_payment_id = pid].customer_id
    ELSE 0

\* C26: an answered PAYMENT_RECEIVED delivery has activated the customer of its
\* payment (an active feature row exists) when updatePaymentStatus returned
\* true, and has left customer_features as it was when updatePaymentStatus
\* returned false (unknown payment, failed update).
C26_ActivationOnSuccess ==
    \A r \in Req :
        (Answered(r) /\ req[r].body.event = "PAYMENT_RECEIVED"
                     /\ req[r].success \in {"true", "false"}) =>
            IF req[r].success = "true"
            THEN \E f \in customer_features :
                    /\ f.customer_id = CustomerOf(req[r].body.payment)
                    /\ f.is_active
            ELSE customer_features = req[r].feats0

\* The plan of the payment with the gateway id
PlanOf(pid) ==
    payments[CHOOSE i \in 1..Len(payments) : payments[i].asaas_payment_id = pid].plan_type

\* The feature each plan stands for
PlanFeature == [ESSENCIAL |-> "basic_features", COMPLETO |-> "premium_features"]

\* C27: after one or more PAYMENT_RECEIVED deliveries for a payment have run
\* the activation, customer_features holds exactly one active row for the
\* payment's customer and the feature of its plan ('basic_features' for
\* ESSENCIAL, 'premium_features' for COMPLETO), and the delivery has written no
\* row of another customer or another feature.
C27_OneActiveFeature ==
    \A r \in Req :
        (Answered(r) /\ req[r].body.event = "PAYMENT_RECEIVED" /\ req[r].success = "true") =>
            LET customer == CustomerOf(req[r].body.payment)
                feature == PlanFeature[PlanOf(req[r].body.payment)]
            IN /\ Cardinality({f \in customer_features :
                                  /\ f.customer_id = customer
                                  /\ f.feature_name = feature
                                  /\ f.is_active}) = 1
               /\ \A f \in customer_features \ req[r].feats0 :
                     f.customer_id = customer /\ f.feature_name = feature

\* The payment rows apart from their status
Unstatused(pays) == [i \in 1..Len(pays) |-> [pays[i] EXCEPT !.status = "-"]]

\* C28: a PAYMENT_REFUNDED delivery, once answered, has changed no customer
\* row, no feature row and no payment_errors row; of payments it has changed at
\* most the status of the rows with its payment id; of webhook_logs it has
\* added its own row and changed at most processed and error_message of others.
C28_RefundFrame ==
    \A r \in Req :
        (Answered(r) /\ req[r].body.event = "PAYMENT_REFUNDED") =>
            /\ customers = req[r].custs0
            /\ customer_features = req[r].feats0
            /\ payment_errors = req[r].errs0
            /\ Unstatused(payments) = Unstatused(req[r].pays0)
            /\ \A i \in 1..Len(payments) :
                  payments[i].status # req[r].pays0[i].status =>
                      /\ payments[i].asaas_payment_id = req[r].body.payment
                      /\ payments[i].status = "REFUNDED"
            /\ Len(webhook_logs) \in {Len(req[r].logs0), Len(req[r].logs0) + 1}
            /\ \A i \in 1..Len(req[r].logs0) : Logged(webhook_logs[i]) = Logged(req[r].logs0[i])

C28_Witness ==
    \E r \in Req :
        /\ Answered(r)
        /\ req[r].body.event = "PAYMENT_REFUNDED"
        /\ req[r].res = 200
        /\ Calls(req[r], "select payments") = 3
        /\ req[r].ops[Len(req[r].ops) - 1] = <<"select payments", FALSE>>
        /\ StatusIn(req[r].pays0, req[r].body.payment) = "PENDING"
        /\ StatusIn(payments, req[r].body.payment) = "REFUNDED"

\* C29: no step of a webhook delivery or of a reprocess, whatever the event
\* type and the payment id, adds or removes a customer or payment row or
\* changes a customer row, and in a payment row it changes nothing but the
\* status: asaas_payment_id, customer_id, plan_type, payment_method and amount
\* stay as they were created.
C29_WebhookFrame ==
    [][/\ customers' = customers
       /\ Len(payments') = Len(payments)
       /\ \A i \in 1..Len(payments) :
             [payments'[i] EXCEPT !.status = payments[i].status] = payments[i]]_vars

\* A delivery of PAYMENT_CREATED has changed the status, and nothing else, of
\* a payment that was RECEIVED
C29_Witness ==
    \E r \in Req :
        /\ Answered(r)
        /\ req[r].res = 200
        /\ req[r].body.event = "PAYMENT_CREATED"
        /\ StatusIn(req[r].pays0, req[r].body.payment) = "RECEIVED"
        /\ StatusIn(payments, req[r].body.payment) = "PENDING"
        /\ Unstatused(payments) = Unstatused(req[r].pays0)

\* The customer rows the request in slot r found that have the e-mail address
\* or the cpf of its body
MatchesOf(r) ==
    {i \in 1..Len(req[r].custs0) :
        \/ req[r].custs0[i].email = req[r].form.email
        \/ req[r].custs0[i].cpf = req[r].form.cpf}

\* C30: an answered create-payment request whose body has the e-mail address
\* or the cpf of an existing customer row has made no createCustomer call and
\* added no customer row. When its UPDATE went through, one of the matching
\* rows has the name and phone of the body and its id, e-mail address, cpf and
\* asaas_customer_id as before, every other row is as before, and createPayment
\* was called once, with the asaas_customer_id stored in that row; when the
\* UPDATE failed, no row changed and createPayment was not called.
C30_ExistingCustomer ==
    \A r \in Req :
        (Created(r) /\ KnownCustomer(r) /\ req[r].form \in GoodForms) =>
            /\ Calls(req[r], "gateway createCustomer") = 0
            /\ Calls(req[r], "insert customers") = 0
            /\ Len(customers) = Len(req[r].custs0)
            /\ IF Succeeded(req[r], "update customers")
               THEN \E i \in MatchesOf(r) :
                       /\ customers[i].nome = req[r].form.nome
                       /\ customers[i].telefone = req[r].form.telefone
                       /\ customers[i].id = req[r].custs0[i].id
                       /\ customers[i].email = req[r].custs0[i].email
                       /\ customers[i].cpf = req[r].custs0[i].cpf
                       /\ customers[i].asaas_customer_id = req[r].custs0[i].asaas_customer_id
                       /\ \A j \in 1..Len(customers) : j # i => customers[j] = req[r].custs0[j]
                       /\ Calls(req[r], "gateway createPayment") = 1
                       /\ req[r].paymentData = req[r].custs0[i].asaas_customer_id
               ELSE /\ customers = req[r].custs0
                    /\ Calls(req[r], "gateway createPayment") = 0

\* The body matches two rows, one by e-mail address and one by cpf; the first
\* was renamed and its gateway reference used
C30_Witness ==
    \E r \in Req :
        /\ Created(r)
        /\ req[r].res = 200
        /\ req[r].form.nome = "Bia"
        /\ MatchesOf(r) = {1, 2}
        /\ req[r].custs0[1].nome = "Ana"
        /\ customers[1].nome = "Bia"
        /\ customers[1].telefone = "11888888888"
        /\ customers[1].email = "a@x.com"
        /\ req[r].paymentData = "cus_1"

\* The create-payment request in slot r got no customer id from the gateway: the
\* call failed, or its answer carried none
NoCustomerIdFor(r) ==
    /\ req[r].kind = "create"
    /\ \/ Failed(req[r], "gateway createCustomer")
       \/ req[r].err = "NoCustomerId"

\* C31: a step that adds a customer row adds one row, for a request whose last
\* step was a createCustomer call that returned an id, and the row carries that
\* id; every customer row has an asaas_customer_id the gateway issued (none is
\* NULL). A request whose createCustomer call failed or returned no id makes
\* no customer INSERT and no createPayment call, and adds no customer row.
C31_CustomerAfterGatewayId ==
    /\ [](/\ \A i \in 1..Len(customers) :
                customers[i].asaas_customer_id \in
                    {GatewayCustomerIds[k] : k \in 1..Len(GatewayCustomerIds)}
          /\ \A r \in Req :
                NoCustomerIdFor(r) =>
                    /\ Calls(req[r], "insert customers") = 0
                    /\ Calls(req[r], "gateway createPayment") = 0
                    /\ req[r].made.customer = 0
                    /\ customers = req[r].custs0
                    /\ req[r].pc = "done" => req[r].res = 500)
    /\ [][Len(customers') # Len(customers) =>
             /\ Len(customers') = Len(customers) + 1
             /\ SubSeq(customers', 1, Len(customers)) = customers
             /\ \E r \in Req :
                   /\ req[r].kind = "create"
                   /\ req[r].ops[Len(req[r].ops)] = <<"gateway createCustomer", TRUE>>
                   /\ req'[r].made.customer = Len(customers')
                   /\ customers'[Len(customers')].asaas_customer_id = req[r].asaasId
                   /\ req[r].asaasId # Undefined]_vars

\* The gateway answered without an id to a request for a second customer
C31_Witness ==
    \E r \in Req :
        /\ Created(r)
        /\ req[r].err = "NoCustomerId"
        /\ Succeeded(req[r], "gateway createCustomer")
        /\ Len(customers) = 1
        /\ Len(payment_errors) = 1
        /\ payment_errors[1].error_message = "NoCustomerId"

\* Slot r runs the UPDATE of updatePaymentStatus in this step
RunsUpdate(r) == req[r].pc = "ups_update" /\ req'[r] # req[r]

\* C32: a request runs the UPDATE of updatePaymentStatus at most once. When the
\* payment was found but the UPDATE matches no row (the row has gone since),
\* the step changes no payment, updatePaymentStatus returns false, no second
\* UPDATE and no activation follow, and the handler goes on to the end of the
\* delivery; an answered delivery whose updatePaymentStatus returned false is
\* answered 200 and has not called activateCustomerServices.
C32_ZeroRowsNoRetry ==
    /\ [](\A r \in Req :
             /\ Calls(req[r], "update payments") <= 1
             /\ (Answered(r) /\ req[r].success = "false") =>
                   /\ req[r].res = 200
                   /\ Calls(req[r], "activateCustomerServices") = 0
                   /\ customer_features = req[r].feats0)
    /\ [][\A r \in Req :
             (RunsUpdate(r) /\ PaymentsByAsaasId(req[r].body.payment) = {}) =>
                 /\ payments' = payments
                 /\ req'[r].success = "false"
                 /\ Calls(req'[r], "update payments") = 1
                 /\ Calls(req'[r], "activateCustomerServices") = 0
                 /\ req'[r].pc \in {"wh_mark", "deact_select"}]_vars

\* A PAYMENT_RECEIVED delivery found its payment, the row went before the
\* UPDATE, and the delivery was answered
C32_Witness ==
    \E r \in Req :
        /\ Answered(r)
        /\ req[r].body.event = "PAYMENT_RECEIVED"
        /\ HasPayment(req[r].pays0, req[r].body.payment)
        /\ ~HasPayment(payments, req[r].body.payment)
        /\ Succeeded(req[r], "update payments")
        /\ Calls(req[r], "select payments") = 1
        /\ req[r].success = "false"
        /\ req[r].res = 200

\* The stored status of a payment of the customer is RECEIVED
PaidFor(pays, customerId) ==
    \E i \in 1..Len(pays) : pays[i].customer_id = customerId /\ pays[i].status = "RECEIVED"

\* Slot r calls activateCustomerServices in this step
CallsActivation(r) ==
    Calls(req'[r], "activateCustomerServices") > Calls(req[r], "activateCustomerServices")

\* C33: with deliveries for one payment in flight together, no step makes a
\* feature row active for a customer whose payment's stored status is not
\* RECEIVED, and a call of activateCustomerServices made when the stored status
\* of its payment is no longer RECEIVED (a concurrent PAYMENT_REFUNDED or
\* PAYMENT_DELETED delivery has changed it) writes no feature row.
C33_NoActivationUnlessReceived ==
    [][/\ \A f \in customer_features' \ customer_features :
             f.is_active => PaidFor(payments, f.customer_id)
       /\ \A r \in Req :
             (CallsActivation(r) /\ StatusIn(payments, req[r].body.payment) # "RECEIVED")
                => customer_features' = customer_features]_vars

\* A PAYMENT_RECEIVED delivery called activateCustomerServices after its own
\* check read the status another delivery had written
C33_Witness ==
    \E r \in Req :
        /\ req[r].kind = "webhook"
        /\ req[r].body.event = "PAYMENT_RECEIVED"
        /\ Calls(req[r], "activateCustomerServices") = 1
        /\ Succeeded(req[r], "update payments")
        /\ req[r].seen \in {"REFUNDED", "CANCELLED"}
        /\ StatusIn(payments, "pay_1") = req[r].seen

\* C34: when two deliveries with the same payment id and event type, in flight
\* together, have both been answered 200, the webhook_logs row each of them
\* inserted is processed.
C34_BothProcessed ==
    (\A r \in Req : Answered(r) /\ req[r].res = 200 /\ req[r].row # 0) =>
        \A r \in Req : webhook_logs[req[r].row].processed

\* The statuses a webhook delivery is answered with
WebhookAnswers == {200, 401, 500}

\* C35: every webhook delivery is answered exactly once, with 200, 401 or 500.
\* A delivery that is in its handler is eventually answered, whatever storage
\* operation fails (the UPDATE of the catch included) and whatever the handler
\* throws; a delivery has a response status exactly when it has been answered;
\* and once answered its response does not change until the slot is free.
C35_OneResponse ==
    /\ [](\A r \in Req :
             req[r].kind = "webhook" =>
                 /\ req[r].pc = "done" <=> req[r].res \in WebhookAnswers
                 /\ req[r].pc # "done" => req[r].res = 0)
    /\ [][\A r \in Req :
             (req[r].kind = "webhook" /\ req[r].pc = "done") =>
                 (req'[r] = req[r] \/ req'[r] = Idle)]_vars
    /\ \A r \in Req :
          (req[r].kind = "webhook" /\ req[r].pc # "done")
              ~> (req[r].pc = "done" /\ req[r].res \in WebhookAnswers)

\* A handler threw (no payment object), the UPDATE of the catch failed as well,
\* and the delivery was answered 500
C35_Witness ==
    \E r \in Req :
        /\ Answered(r)
        /\ req[r].err = "TypeError"
        /\ Failed(req[r], "error webhook_logs")
        /\ req[r].res = 500
        /\ env.secret = GoodKey

\* The request in slot r inserted a customer row and then got no payment from
\* the gateway: the call failed, or its answer carried no id
PaymentFailedAfterInsert(r) ==
    /\ req[r].kind = "create"
    /\ req[r].made.customer # 0
    /\ \/ Failed(req[r], "gateway createPayment")
       \/ req[r].err = "NoPaymentId"

\* The request in slot r repeats a request that failed at payment creation: it
\* found the error row of its body and a customer row of its e-mail and cpf
RetryAfterPaymentFailure(r) ==
    /\ Created(r)
    /\ \E k \in 1..Len(req[r].errs0) :
          /\ req[r].errs0[k].request_data = FormJSON(req[r].form)
          /\ req[r].errs0[k].error_message \in {"GatewayError", "NoPaymentId"}
    /\ \E i \in 1..Len(req[r].custs0) :
          /\ req[r].custs0[i].email = req[r].form.email
          /\ req[r].custs0[i].cpf = req[r].form.cpf

\* Slot r calls createCustomer in this step
CallsCreateCustomer(r) ==
    Calls(req'[r], "gateway createCustomer") > Calls(req[r], "gateway createCustomer")

\* C36: when createPayment fails in a request that has inserted a customer row,
\* the row stays, through the catch and the answer 500 (no rollback); a retry
\* of the request finds it, makes no createCustomer call and inserts no
\* customer row; and no step calls createCustomer for a body whose e-mail
\* address or cpf a stored customer row has, so sequential retries create no
\* further remote customer once the row is stored.
C36_CustomerKeptOnRetry ==
    /\ [](\A r \in Req :
             /\ PaymentFailedAfterInsert(r) =>
                   /\ Len(customers) = Len(req[r].custs0) + 1
                   /\ customers[req[r].made.customer].email = req[r].form.email
                   /\ customers[req[r].made.customer].cpf = req[r].form.cpf
                   /\ customers[req[r].made.customer].asaas_customer_id # NULL
                   /\ req[r].pc = "done" => req[r].res = 500
             /\ RetryAfterPaymentFailure(r) =>
                   /\ Calls(req[r], "gateway createCustomer") = 0
                   /\ Calls(req[r], "insert customers") = 0
                   /\ Len(customers) = Len(req[r].custs0))
    /\ [][\A r \in Req :
             CallsCreateCustomer(r) =>
                 \A i \in 1..Len(customers) :
                     /\ customers[i].email # req[r].form.email
                     /\ customers[i].cpf # req[r].form.cpf]_vars

\* The retry of a request whose payment creation failed has succeeded with the
\* customer row the failed request left
C36_Witness ==
    \E r \in Req :
        /\ RetryAfterPaymentFailure(r)
        /\ req[r].res = 200
        /\ Len(req[r].custs0) = 1
        /\ Len(customers) = 1
        /\ Len(payment_errors) = 1
        /\ payment_errors[1].error_message = "NoPaymentId"
        /\ Len(payments) = 1
        /\ payments[1].customer_id = customers[1].id

\* C37: whenever no request is in progress, the customer of every payment whose
\* stored status is RECEIVED has an active feature row, whichever of the
\* webhook delivery, the reprocess and the status refresh stored that status.
C37_ReceivedHasFeature ==
    (\A r \in Req : req[r].pc = "idle") =>
        \A i \in 1..Len(payments) :
            payments[i].status = "RECEIVED" =>
                \E f \in customer_features :
                    f.customer_id = payments[i].customer_id /\ f.is_active

====
